---- MODULE Spec2Model ----
(***************************************************************************)
(* smartcal1 (src/src/app.py): a cron-started process that, in check mode, *)
(* records one weather reading, evaluates the sustained-warmth predicate   *)
(* over the weather_logs table, consults the LLM when it holds and creates *)
(* a task when the answer is affirmative; in snooze mode it defers a task. *)
(* Nothing keeps two processes from running at once: each process p of     *)
(* Procs has its own position pc[p] and its own locals, and the processes  *)
(* share the database file and the clock.  A step of a process holds one   *)
(* access to what is shared, a reading of the clock or a statement on the  *)
(* database, with the code that touches only the process's own state up to *)
(* the next access; the other processes may take steps in between.  An     *)
(* INSERT reads the clock (CURRENT_TIMESTAMP) and takes the write lock of  *)
(* the file; its row is visible to the other processes from conn.commit()  *)
(* on.  The UPDATE of snooze mode takes the write lock as well, and the    *)
(* other processes see the table as it was until conn.commit().            *)
(*                                                                         *)
(* Time is counted in ticks (TicksPerSecond per second).  An instant is a  *)
(* number of ticks of true UTC time since midnight UTC of day 0, the day   *)
(* whose proleptic Gregorian ordinal is EpochOrdinal.  A datetime is       *)
(* <<day, tick of the day>>, a timedelta <<days, ticks>> with 0 <= ticks   *)
(* < Day, as Python normalises them.  SQLite's CURRENT_TIMESTAMP is the    *)
(* clock in UTC cut to whole seconds; Python's datetime.now() is the naive *)
(* LOCAL wall clock (UTC + tz) at full resolution.  Datetimes reach SQLite *)
(* as ISO text and are compared there as text.  NULL / None is the empty   *)
(* sequence <<>>, a present value v is <<v>>.  A str is the sequence of    *)
(* its Unicode code points; a Python int is <<sign, decimal digits>>, of   *)
(* any size.                                                               *)
(***************************************************************************)
EXTENDS Integers, Sequences, FiniteSets, TLC

VARIABLES
    now,             \* the true instant of the latest clock reading, in ticks of UTC time
    tz,              \* the local-time offset from UTC of the machine, in ticks (TZ)
    TEMP_THRESHOLD,  \* app.py:35, from the environment
    DURATION_CHECKS, \* app.py:36, from the environment
    weather_logs,    \* table weather_logs: the committed rows in rowid order
    tasks,           \* table tasks: the committed rows in rowid order
    sqlite_sequence, \* AUTOINCREMENT counters of the two tables
    log_instants,    \* history: the true instant of the INSERT of each weather row
    pending,         \* pending[p]: the INSERT or UPDATE of p that is not yet committed
    pc,              \* pc[p]: position of process p in app.py
    args,            \* args[p]: argparse result: mode, task_id, duration
    temp,            \* temp[p]: check mode, temp (app.py:136)
    since,           \* since[p]: check_sustained_warmth local since
    count,           \* count[p]: check_sustained_warmth local count
    met,             \* met[p]: check_sustained_warmth local met
    sustained,       \* sustained[p]: what check_sustained_warmth() returned to app.py:139
    reasoning,       \* reasoning[p]: check mode, reasoning (app.py:145)
    affirmed,        \* affirmed[p]: the value of the condition of app.py:148
    task_id,         \* task_id[p]: check mode, task_id (app.py:149)
    snooze_until,    \* snooze_until[p]: snooze_task local snooze_until (app.py:121)
    llm_calls,       \* history: llm_calls[p], number of llm.invoke calls of p
    reminders,       \* stdout of p: its REMINDER lines, <<id, description>>
    listing,         \* stdout of p: the rows of "The List" it printed, NULL before the report
    metrics,         \* metrics[p]: mlflow.log_metric calls of p that succeeded, <<name, value>>
    error,           \* error[p]: the uncaught exception that ended p, "" if none
    snoozed_msg,     \* stdout of p: the "Snoozed task #id until t" line, <<id, t>>
    created,         \* history: created[p], ids of the task rows p has inserted and committed
    tasks_at_start,  \* history: tasks_at_start[p], the tasks table as it was when p started
    n_checks,        \* check processes started, of the MaxChecks of a behaviour
    n_snoozes,       \* snooze processes started, of the MaxSnoozes of a behaviour
    tally            \* history: the check runs so far that took the affirmed branch of
                     \* app.py:148, those of them whose INSERT of create_task or its commit
                     \* raised, and those that ran to the end of app.py

dbvars == <<weather_logs, tasks, sqlite_sequence, log_instants>>
envvars == <<tz, TEMP_THRESHOLD, DURATION_CHECKS>>
runvars == <<args, temp, since, count, met, sustained, reasoning, affirmed, task_id,
             snooze_until, llm_calls, reminders, listing, metrics, error, snoozed_msg,
             created, tasks_at_start>>
vars == <<now, envvars, dbvars, pending, pc, runvars, n_checks, n_snoozes, tally>>

----------------------------------------------------------------------------
(* Bounds of the model *)

MaxChecks == 2        \* check processes started in a behaviour
MaxSnoozes == 1       \* snooze processes started in a behaviour
MaxHalfHours == 1     \* half hours the clock may advance
MaxLogRows == 3       \* rows of weather_logs when the sustained check is studied alone
MaxWindowHalfHours == 3  \* half hours the clock may advance there
MaxTextLen == 3       \* length of the texts and durations drawn letter by letter

----------------------------------------------------------------------------
(* Values *)

NULL == <<>>
Some(v) == <<v>>

\* The processes that may run at one time.
Procs == { 1, 2 }

----------------------------------------------------------------------------
(* Text: Python str as a sequence of code points *)

\* The characters str.strip() removes (str.isspace(), Unicode 14).
Whitespace ==
    (9..13) \cup (28..32) \cup { 133, 160, 5760 } \cup (8192..8202)
    \cup { 8232, 8233, 8239, 8287, 12288 }

\* The characters int() skips around a numeral: the same, less U+001C..U+001F.
IntWhitespace == Whitespace \ (28..31)

\* The code point of the digit zero of each of the 66 scripts whose ten decimal
\* digits (Unicode category Nd) int() reads; the digits 1..9 follow their zero.
DigitZeros ==
    {
      48, 1632, 1776, 1984, 2406, 2534, 2662, 2790, 2918, 3046, 3174, 3302,
      3430, 3558, 3664, 3792, 3872, 4160, 4240, 6112, 6160, 6470, 6608, 6784,
      6800, 6992, 7088, 7232, 7248, 42528, 43216, 43264, 43472, 43504, 43600,
      44016, 65296, 66720, 68912, 69734, 69872, 69942, 70096, 70384, 70736,
      70864, 71248, 71360, 71472, 71904, 72016, 72784, 73040, 73120, 92768,
      92864, 93008, 120782, 120792, 120802, 120812, 120822, 123200, 123632,
      125264, 130032 }

\* str.upper() on the characters it turns into one other character:
\* <<first, last, step, upper of first>> stands for the characters first,
\* first + step, .. last, each as far from its upper case as first is.
UpperRuns ==
    {
      <<97, 122, 1, 65>>, <<181, 181, 1, 924>>, <<224, 246, 1, 192>>,
      <<248, 254, 1, 216>>, <<255, 255, 1, 376>>, <<257, 303, 2, 256>>,
      <<305, 305, 1, 73>>, <<307, 311, 2, 306>>, <<314, 328, 2, 313>>,
      <<331, 375, 2, 330>>, <<378, 382, 2, 377>>, <<383, 383, 1, 83>>,
      <<384, 384, 1, 579>>, <<387, 389, 2, 386>>, <<392, 392, 1, 391>>,
      <<396, 396, 1, 395>>, <<402, 402, 1, 401>>, <<405, 405, 1, 502>>,
      <<409, 409, 1, 408>>, <<410, 410, 1, 573>>, <<414, 414, 1, 544>>,
      <<417, 421, 2, 416>>, <<424, 424, 1, 423>>, <<429, 429, 1, 428>>,
      <<432, 432, 1, 431>>, <<436, 438, 2, 435>>, <<441, 441, 1, 440>>,
      <<445, 445, 1, 444>>, <<447, 447, 1, 503>>, <<453, 453, 1, 452>>,
      <<454, 454, 1, 452>>, <<456, 456, 1, 455>>, <<457, 457, 1, 455>>,
      <<459, 459, 1, 458>>, <<460, 460, 1, 458>>, <<462, 476, 2, 461>>,
      <<477, 477, 1, 398>>, <<479, 495, 2, 478>>, <<498, 498, 1, 497>>,
      <<499, 499, 1, 497>>, <<501, 501, 1, 500>>, <<505, 543, 2, 504>>,
      <<547, 563, 2, 546>>, <<572, 572, 1, 571>>, <<575, 576, 1, 11390>>,
      <<578, 578, 1, 577>>, <<583, 591, 2, 582>>, <<592, 592, 1, 11375>>,
      <<593, 593, 1, 11373>>, <<594, 594, 1, 11376>>, <<595, 595, 1, 385>>,
      <<596, 596, 1, 390>>, <<598, 599, 1, 393>>, <<601, 601, 1, 399>>,
      <<603, 603, 1, 400>>, <<604, 604, 1, 42923>>, <<608, 608, 1, 403>>,
      <<609, 609, 1, 42924>>, <<611, 611, 1, 404>>, <<613, 613, 1, 42893>>,
      <<614, 614, 1, 42922>>, <<616, 616, 1, 407>>, <<617, 617, 1, 406>>,
      <<618, 618, 1, 42926>>, <<619, 619, 1, 11362>>, <<620, 620, 1, 42925>>,
      <<623, 623, 1, 412>>, <<625, 625, 1, 11374>>, <<626, 626, 1, 413>>,
      <<629, 629, 1, 415>>, <<637, 637, 1, 11364>>, <<640, 640, 1, 422>>,
      <<642, 642, 1, 42949>>, <<643, 643, 1, 425>>, <<647, 647, 1, 42929>>,
      <<648, 648, 1, 430>>, <<649, 649, 1, 580>>, <<650, 651, 1, 433>>,
      <<652, 652, 1, 581>>, <<658, 658, 1, 439>>, <<669, 669, 1, 42930>>,
      <<670, 670, 1, 42928>>, <<837, 837, 1, 921>>, <<881, 883, 2, 880>>,
      <<887, 887, 1, 886>>, <<891, 893, 1, 1021>>, <<940, 940, 1, 902>>,
      <<941, 943, 1, 904>>, <<945, 961, 1, 913>>, <<962, 962, 1, 931>>,
      <<963, 971, 1, 931>>, <<972, 972, 1, 908>>, <<973, 974, 1, 910>>,
      <<976, 976, 1, 914>>, <<977, 977, 1, 920>>, <<981, 981, 1, 934>>,
      <<982, 982, 1, 928>>, <<983, 983, 1, 975>>, <<985, 1007, 2, 984>>,
      <<1008, 1008, 1, 922>>, <<1009, 1009, 1, 929>>, <<1010, 1010, 1, 1017>>,
      <<1011, 1011, 1, 895>>, <<1013, 1013, 1, 917>>, <<1016, 1016, 1, 1015>>,
      <<1019, 1019, 1, 1018>>, <<1072, 1103, 1, 1040>>,
      <<1104, 1119, 1, 1024>>, <<1121, 1153, 2, 1120>>,
      <<1163, 1215, 2, 1162>>, <<1218, 1230, 2, 1217>>,
      <<1231, 1231, 1, 1216>>, <<1233, 1327, 2, 1232>>,
      <<1377, 1414, 1, 1329>>, <<4304, 4346, 1, 7312>>,
      <<4349, 4351, 1, 7357>>, <<5112, 5117, 1, 5104>>,
      <<7296, 7296, 1, 1042>>, <<7297, 7297, 1, 1044>>,
      <<7298, 7298, 1, 1054>>, <<7299, 7300, 1, 1057>>,
      <<7301, 7301, 1, 1058>>, <<7302, 7302, 1, 1066>>,
      <<7303, 7303, 1, 1122>>, <<7304, 7304, 1, 42570>>,
      <<7545, 7545, 1, 42877>>, <<7549, 7549, 1, 11363>>,
      <<7566, 7566, 1, 42950>>, <<7681, 7829, 2, 7680>>,
      <<7835, 7835, 1, 7776>>, <<7841, 7935, 2, 7840>>,
      <<7936, 7943, 1, 7944>>, <<7952, 7957, 1, 7960>>,
      <<7968, 7975, 1, 7976>>, <<7984, 7991, 1, 7992>>,
      <<8000, 8005, 1, 8008>>, <<8017, 8023, 2, 8025>>,
      <<8032, 8039, 1, 8040>>, <<8048, 8049, 1, 8122>>,
      <<8050, 8053, 1, 8136>>, <<8054, 8055, 1, 8154>>,
      <<8056, 8057, 1, 8184>>, <<8058, 8059, 1, 8170>>,
      <<8060, 8061, 1, 8186>>, <<8112, 8113, 1, 8120>>,
      <<8126, 8126, 1, 921>>, <<8144, 8145, 1, 8152>>,
      <<8160, 8161, 1, 8168>>, <<8165, 8165, 1, 8172>>,
      <<8526, 8526, 1, 8498>>, <<8560, 8575, 1, 8544>>,
      <<8580, 8580, 1, 8579>>, <<9424, 9449, 1, 9398>>,
      <<11312, 11359, 1, 11264>>, <<11361, 11361, 1, 11360>>,
      <<11365, 11365, 1, 570>>, <<11366, 11366, 1, 574>>,
      <<11368, 11372, 2, 11367>>, <<11379, 11379, 1, 11378>>,
      <<11382, 11382, 1, 11381>>, <<11393, 11491, 2, 11392>>,
      <<11500, 11502, 2, 11499>>, <<11507, 11507, 1, 11506>>,
      <<11520, 11557, 1, 4256>>, <<11559, 11559, 1, 4295>>,
      <<11565, 11565, 1, 4301>>, <<42561, 42605, 2, 42560>>,
      <<42625, 42651, 2, 42624>>, <<42787, 42799, 2, 42786>>,
      <<42803, 42863, 2, 42802>>, <<42874, 42876, 2, 42873>>,
      <<42879, 42887, 2, 42878>>, <<42892, 42892, 1, 42891>>,
      <<42897, 42899, 2, 42896>>, <<42900, 42900, 1, 42948>>,
      <<42903, 42921, 2, 42902>>, <<42933, 42947, 2, 42932>>,
      <<42952, 42954, 2, 42951>>, <<42961, 42961, 1, 42960>>,
      <<42967, 42969, 2, 42966>>, <<42998, 42998, 1, 42997>>,
      <<43859, 43859, 1, 42931>>, <<43888, 43967, 1, 5024>>,
      <<65345, 65370, 1, 65313>>, <<66600, 66639, 1, 66560>>,
      <<66776, 66811, 1, 66736>>, <<66967, 66977, 1, 66928>>,
      <<66979, 66993, 1, 66940>>, <<66995, 67001, 1, 66956>>,
      <<67003, 67004, 1, 66964>>, <<68800, 68850, 1, 68736>>,
      <<71872, 71903, 1, 71840>>, <<93792, 93823, 1, 93760>>,
      <<125218, 125251, 1, 125184>> }

\* str.upper() on the characters it turns into several: <<c, upper of c>>.
UpperSpecial ==
    {
      <<223, <<83, 83>>>>, <<329, <<700, 78>>>>, <<496, <<74, 780>>>>,
      <<912, <<921, 776, 769>>>>, <<944, <<933, 776, 769>>>>,
      <<1415, <<1333, 1362>>>>, <<7830, <<72, 817>>>>, <<7831, <<84, 776>>>>,
      <<7832, <<87, 778>>>>, <<7833, <<89, 778>>>>, <<7834, <<65, 702>>>>,
      <<8016, <<933, 787>>>>, <<8018, <<933, 787, 768>>>>,
      <<8020, <<933, 787, 769>>>>, <<8022, <<933, 787, 834>>>>,
      <<8064, <<7944, 921>>>>, <<8065, <<7945, 921>>>>,
      <<8066, <<7946, 921>>>>, <<8067, <<7947, 921>>>>,
      <<8068, <<7948, 921>>>>, <<8069, <<7949, 921>>>>,
      <<8070, <<7950, 921>>>>, <<8071, <<7951, 921>>>>,
      <<8072, <<7944, 921>>>>, <<8073, <<7945, 921>>>>,
      <<8074, <<7946, 921>>>>, <<8075, <<7947, 921>>>>,
      <<8076, <<7948, 921>>>>, <<8077, <<7949, 921>>>>,
      <<8078, <<7950, 921>>>>, <<8079, <<7951, 921>>>>,
      <<8080, <<7976, 921>>>>, <<8081, <<7977, 921>>>>,
      <<8082, <<7978, 921>>>>, <<8083, <<7979, 921>>>>,
      <<8084, <<7980, 921>>>>, <<8085, <<7981, 921>>>>,
      <<8086, <<7982, 921>>>>, <<8087, <<7983, 921>>>>,
      <<8088, <<7976, 921>>>>, <<8089, <<7977, 921>>>>,
      <<8090, <<7978, 921>>>>, <<8091, <<7979, 921>>>>,
      <<8092, <<7980, 921>>>>, <<8093, <<7981, 921>>>>,
      <<8094, <<7982, 921>>>>, <<8095, <<7983, 921>>>>,
      <<8096, <<8040, 921>>>>, <<8097, <<8041, 921>>>>,
      <<8098, <<8042, 921>>>>, <<8099, <<8043, 921>>>>,
      <<8100, <<8044, 921>>>>, <<8101, <<8045, 921>>>>,
      <<8102, <<8046, 921>>>>, <<8103, <<8047, 921>>>>,
      <<8104, <<8040, 921>>>>, <<8105, <<8041, 921>>>>,
      <<8106, <<8042, 921>>>>, <<8107, <<8043, 921>>>>,
      <<8108, <<8044, 921>>>>, <<8109, <<8045, 921>>>>,
      <<8110, <<8046, 921>>>>, <<8111, <<8047, 921>>>>,
      <<8114, <<8122, 921>>>>, <<8115, <<913, 921>>>>, <<8116, <<902, 921>>>>,
      <<8118, <<913, 834>>>>, <<8119, <<913, 834, 921>>>>,
      <<8124, <<913, 921>>>>, <<8130, <<8138, 921>>>>, <<8131, <<919, 921>>>>,
      <<8132, <<905, 921>>>>, <<8134, <<919, 834>>>>,
      <<8135, <<919, 834, 921>>>>, <<8140, <<919, 921>>>>,
      <<8146, <<921, 776, 768>>>>, <<8147, <<921, 776, 769>>>>,
      <<8150, <<921, 834>>>>, <<8151, <<921, 776, 834>>>>,
      <<8162, <<933, 776, 768>>>>, <<8163, <<933, 776, 769>>>>,
      <<8164, <<929, 787>>>>, <<8166, <<933, 834>>>>,
      <<8167, <<933, 776, 834>>>>, <<8178, <<8186, 921>>>>,
      <<8179, <<937, 921>>>>, <<8180, <<911, 921>>>>, <<8182, <<937, 834>>>>,
      <<8183, <<937, 834, 921>>>>, <<8188, <<937, 921>>>>,
      <<64256, <<70, 70>>>>, <<64257, <<70, 73>>>>, <<64258, <<70, 76>>>>,
      <<64259, <<70, 70, 73>>>>, <<64260, <<70, 70, 76>>>>,
      <<64261, <<83, 84>>>>, <<64262, <<83, 84>>>>, <<64275, <<1348, 1350>>>>,
      <<64276, <<1348, 1333>>>>, <<64277, <<1348, 1339>>>>,
      <<64278, <<1358, 1350>>>>, <<64279, <<1348, 1341>>>> }

\* str.upper() on one character: the sequence of characters it becomes.  In
\* ASCII only "a" to "z" (97 to 122) change; the tables hold the rest.
UpperChar(c) ==
    IF c < 128 THEN (IF c \in 97..122 THEN << c - 32 >> ELSE << c >>)
    ELSE IF \E m \in UpperSpecial : m[1] = c
    THEN (CHOOSE m \in UpperSpecial : m[1] = c)[2]
    ELSE IF \E r \in UpperRuns : c \in r[1]..r[2] /\ (c - r[1]) % r[3] = 0
    THEN (LET r == CHOOSE r \in UpperRuns : c \in r[1]..r[2] /\ (c - r[1]) % r[3] = 0
          IN  << c - r[1] + r[4] >>)
    ELSE << c >>

\* str.upper()
RECURSIVE Upper(_)
Upper(s) == IF s = <<>> THEN <<>> ELSE UpperChar(Head(s)) \o Upper(Tail(s))

\* sub in s
Contains(s, sub) ==
    \E i \in 1..(Len(s) - Len(sub) + 1) : SubSeq(s, i, i + Len(sub) - 1) = sub

\* str.lstrip(), str.rstrip() over a set of characters
RECURSIVE LStrip(_, _)
LStrip(s, chars) == IF s # <<>> /\ Head(s) \in chars THEN LStrip(Tail(s), chars) ELSE s
RECURSIVE RStrip(_, _)
RStrip(s, chars) ==
    IF s # <<>> /\ s[Len(s)] \in chars THEN RStrip(SubSeq(s, 1, Len(s) - 1), chars) ELSE s

\* str.strip()
Strip(s) == RStrip(LStrip(s, Whitespace), Whitespace)

\* str.endswith(c) for a one-character suffix
EndsWith(s, c) == s # <<>> /\ s[Len(s)] = c

\* s[:-1]
DropLast(s) == IF s = <<>> THEN <<>> ELSE SubSeq(s, 1, Len(s) - 1)

\* Whether int() reads c as a decimal digit, and the digit it reads.
IsDigit(c) == \E z \in DigitZeros : c \in z..(z + 9)
DigitValue(c) == c - (CHOOSE z \in DigitZeros : c \in z..(z + 9))

\* The digits part of an int() literal: digits with single underscores ("_",
\* 95) between digits, as the sequence of their values.  NULL when it is not one.
RECURSIVE DigitsValue(_, _, _)
DigitsValue(s, acc, afterDigit) ==
    IF s = <<>> THEN (IF afterDigit THEN Some(acc) ELSE NULL)
    ELSE IF IsDigit(Head(s)) THEN DigitsValue(Tail(s), Append(acc, DigitValue(Head(s))), TRUE)
    ELSE IF Head(s) = 95 /\ afterDigit THEN DigitsValue(Tail(s), acc, FALSE)
    ELSE NULL

\* int(): the most digits a numeral may have (sys.int_info.default_max_str_digits).
MaxStrDigits == 4300

\* The Python int of a sign and the values of its decimal digits: leading
\* zeros fall away, and zero has no sign.
PyLong(neg, digits) ==
    LET mag == LStrip(digits, {0})
    IN  [ neg |-> neg /\ mag # <<>>, mag |-> mag ]

\* int(s) for a str: surrounding whitespace, an optional sign ("+" 43, "-" 45),
\* the digits.  NULL is ValueError.
PyInt(s) ==
    LET t == RStrip(LStrip(s, IntWhitespace), IntWhitespace)
        signed == t # <<>> /\ Head(t) \in {43, 45}
        body == IF signed THEN Tail(t) ELSE t
        v == DigitsValue(body, <<>>, FALSE)
    IN  IF v = NULL \/ Len(v[1]) > MaxStrDigits THEN NULL
        ELSE Some(PyLong(signed /\ Head(t) = 45, v[1]))

\* The number a sequence of at most 9 digit values stands for.
RECURSIVE NatOf(_)
NatOf(mag) == IF mag = <<>> THEN 0 ELSE 10 * NatOf(DropLast(mag)) + mag[Len(mag)]

----------------------------------------------------------------------------
(* Time *)

TicksPerSecond == 2
Second == TicksPerSecond
Minute == 60 * Second
Hour == 60 * Minute
Day == 24 * Hour

\* The instant the first process may start: noon UTC of day 0.
StartInstant == 12 * Hour

\* The day 0 of the model, 2026-01-01, as date.toordinal() counts days, and the
\* last day a datetime can hold, 9999-12-31; the first is day 1, 0001-01-01.
EpochOrdinal == 739617
MaxOrdinal == 3652059

\* The most days a timedelta can hold, either way (timedelta.max.days).
MaxDeltaDays == 999999999

\* The instants at which clocks are read: each of the first n half hours after
\* StartInstant, and one tick (a fraction of a second) after each.
Instants(n) == { StartInstant + h * 30 * Minute + f : h \in 0..n, f \in {0, 1} }
TimeGrid == Instants(MaxHalfHours)

\* The instants at which the clocks are read when whole runs follow one
\* another: a fraction of a second after each half hour.
RunGrid == { StartInstant + h * 30 * Minute + 1 : h \in 0..MaxHalfHours }
WindowGrid == Instants(MaxWindowHalfHours)

\* A day and a number of ticks as <<day, tick of the day>>.
Normalized(day, ticks) == << day + (ticks \div Day), ticks % Day >>

\* timedelta(days=n) for a Python int n; NULL is OverflowError.
TimedeltaDays(n) ==
    IF Len(n.mag) > 9 THEN NULL
    ELSE Some(<< IF n.neg THEN 0 - NatOf(n.mag) ELSE NatOf(n.mag), 0 >>)

\* divmod(n, 24) for the digits of a natural number n, as <<quotient, rest>>,
\* digit by digit; NULL when the quotient is above MaxDeltaDays.
RECURSIVE DivMod24(_, _, _)
DivMod24(mag, q, r) ==
    IF mag = <<>> THEN Some(<< q, r >>)
    ELSE IF q > MaxDeltaDays \div 10 THEN NULL
    ELSE IF 10 * q + (10 * r + Head(mag)) \div 24 > MaxDeltaDays THEN NULL
    ELSE DivMod24(Tail(mag), 10 * q + (10 * r + Head(mag)) \div 24,
                  (10 * r + Head(mag)) % 24)

\* timedelta(hours=n) for a Python int n; NULL is OverflowError.
TimedeltaHours(n) ==
    LET qr == DivMod24(n.mag, 0, 0)
    IN  IF qr = NULL THEN NULL
        ELSE IF ~n.neg THEN Some(<< qr[1][1], qr[1][2] * Hour >>)
        ELSE IF qr[1][2] = 0 THEN Some(<< 0 - qr[1][1], 0 >>)
        ELSE IF qr[1][1] + 1 > MaxDeltaDays THEN NULL
        ELSE Some(<< 0 - qr[1][1] - 1, (24 - qr[1][2]) * Hour >>)

\* timedelta(minutes=n) for a number n of the size of DURATION_CHECKS
TimedeltaMinutes(n) == Normalized(0, n * Minute)

\* datetime + timedelta and datetime - timedelta, before the range check
DatetimePlus(dt, delta) == Normalized(dt[1] + delta[1], dt[2] + delta[2])
DatetimeMinus(dt, delta) == Normalized(dt[1] - delta[1], dt[2] - delta[2])

\* Whether a datetime is one that datetime can hold (years 1 to 9999); the sum
\* that is not raises OverflowError.
InRange(dt) == EpochOrdinal + dt[1] \in 1..MaxOrdinal

\* datetime.now() read at instant t on a machine whose zone is offset from UTC:
\* the naive local wall clock.
DatetimeNow(t, offset) == Normalized(0, t + offset)

\* SQLite CURRENT_TIMESTAMP read at instant t: 'YYYY-MM-DD HH:MM:SS' in UTC,
\* whole seconds.  As text it is <<day, second of the day>>.
CurrentTimestamp(t) == << t \div Day, (t % Day) \div Second >>

\* sqlite3's default datetime adapter, datetime.isoformat(" "), and str():
\* 'YYYY-MM-DD HH:MM:SS' when microsecond = 0, else 'YYYY-MM-DD HH:MM:SS.ffffff'.
\* The text is <<day, second>> or <<day, second, fraction>>.
AdaptDatetime(dt) ==
    IF dt[2] % Second = 0 THEN << dt[1], dt[2] \div Second >>
    ELSE << dt[1], dt[2] \div Second, dt[2] % Second >>

\* SQLite's comparison of two TEXT values (memcmp, the shorter first on a tie),
\* on zero-padded fixed-width fields: field by field, a proper prefix is less.
RECURSIVE TextGreater(_, _)
TextGreater(a, b) ==
    IF a = <<>> THEN FALSE
    ELSE IF b = <<>> THEN TRUE
    ELSE IF Head(a) # Head(b) THEN Head(a) > Head(b)
    ELSE TextGreater(Tail(a), Tail(b))

----------------------------------------------------------------------------
(* The two tables (app.py:47-61) *)

\* WeatherRow without AUTOINCREMENT: every row takes the id 1.
WeatherRowReusedId(id, t, at) ==
    [ id |-> 1, timestamp |-> CurrentTimestamp(at), temp |-> t, condition_met |-> 0 ]

\* INSERT INTO weather_logs (temp) VALUES (?): id from AUTOINCREMENT,
\* timestamp DEFAULT CURRENT_TIMESTAMP, condition_met DEFAULT 0.  t is the
\* value bound to temp: Some(n) for the number n, NULL for None.
WeatherRow(id, t, at) ==
    [ id |-> id, timestamp |-> CurrentTimestamp(at), temp |-> t, condition_met |-> 0 ]

\* INSERT INTO tasks (description) VALUES (?): id from AUTOINCREMENT,
\* status DEFAULT 'pending', snooze_until NULL, created_at DEFAULT CURRENT_TIMESTAMP.
TaskRow(id, description, at) ==
    [ id |-> id, description |-> description, status |-> "pending",
      snooze_until |-> NULL, created_at |-> CurrentTimestamp(at) ]

\* SnoozedRow with the status left as it was.
SnoozedRowKeepsStatus(row, until) ==
    [ row EXCEPT !.snooze_until = AdaptDatetime(until) ]

\* SnoozedRow that also notes the snooze in the description: " (snoozed)".
SnoozedRowAnnotated(row, until) ==
    [ row EXCEPT !.status = "snoozed", !.snooze_until = AdaptDatetime(until),
                 !.description = @ \o << 32, 40, 115, 110, 111, 111, 122, 101, 100, 41 >> ]

\* UPDATE tasks SET status='snoozed', snooze_until=? on one row.
SnoozedRow(row, until) ==
    [ row EXCEPT !.status = "snoozed", !.snooze_until = AdaptDatetime(until) ]

\* WHERE temp > ? AND timestamp > ?   (NULL > ? is not true)
LogMatches(row, threshold, sinceText) ==
    /\ row.temp # NULL
    /\ row.temp[1] > threshold
    /\ TextGreater(row.timestamp, sinceText)

\* SELECT COUNT(*) FROM weather_logs WHERE temp > ? AND timestamp > ?
RECURSIVE CountSince(_, _, _)
CountSince(logs, threshold, sinceText) ==
    IF logs = <<>> THEN 0
    ELSE (IF LogMatches(Head(logs), threshold, sinceText) THEN 1 ELSE 0)
         + CountSince(Tail(logs), threshold, sinceText)

\* since = datetime.now() - timedelta(minutes=30 * DURATION_CHECKS)   (app.py:82)
SinceOf(localNow, checks) == DatetimeMinus(localNow, TimedeltaMinutes(30 * checks))

\* Met with the comparison made strict.
MetStrict(cnt, checks) == cnt > checks

\* met = count >= DURATION_CHECKS   (app.py:88)
Met(cnt, checks) == cnt >= checks

\* The fixed parts of the description of create_task (app.py:94):
\* "Test outside camera setup (reasoning: ", "weather trigger", ")".
DescriptionHead ==
    << 84, 101, 115, 116, 32, 111, 117, 116, 115, 105, 100, 101, 32, 99, 97,
       109, 101, 114, 97, 32, 115, 101, 116, 117, 112, 32, 40, 114, 101, 97,
       115, 111, 110, 105, 110, 103, 58, 32 >>
WeatherTrigger ==
    << 119, 101, 97, 116, 104, 101, 114, 32, 116, 114, 105, 103, 103, 101,
       114 >>
DescriptionTail == << 41 >>

\* description of create_task (app.py:94)
Description(llm_reasoning) ==
    DescriptionHead
    \o (IF llm_reasoning # <<>> THEN llm_reasoning ELSE WeatherTrigger)
    \o DescriptionTail

\* IsAffirmed without the upper(): a case-sensitive search for "Y", "YES".
IsAffirmedCaseSensitive(text) ==
    Contains(text, << 89 >>) \/ Contains(text, << 89, 69, 83 >>)

\* "Y" in reasoning.upper() or "YES" in reasoning.upper()   (app.py:148)
IsAffirmed(text) ==
    Contains(Upper(text), << 89 >>) \/ Contains(Upper(text), << 89, 69, 83 >>)

\* The delta of snooze_task (app.py:115-120), or the exception that int() or
\* timedelta() raises.  "d" is 100, "h" is 104; the default is timedelta(days=1).
ParseDuration(duration_str) ==
    LET n == PyInt(DropLast(duration_str))
        delta == IF EndsWith(duration_str, 100) THEN TimedeltaDays(n[1])
                 ELSE TimedeltaHours(n[1])
    IN  IF EndsWith(duration_str, 100) \/ EndsWith(duration_str, 104)
        THEN (IF n = NULL THEN [ error |-> "ValueError", delta |-> NULL ]
              ELSE IF delta = NULL THEN [ error |-> "OverflowError", delta |-> NULL ]
              ELSE [ error |-> "", delta |-> delta ])
        ELSE [ error |-> "", delta |-> TimedeltaDays(PyLong(FALSE, << 1 >>)) ]

\* UpdateSnooze that wakes a task already snoozed: its status returns to pending.
UpdateSnoozeToggle(rows, id, until) ==
    [ i \in 1..Len(rows) |->
        IF rows[i].id = id
        THEN (IF rows[i].status = "snoozed"
              THEN [ rows[i] EXCEPT !.status = "pending", !.snooze_until = NULL ]
              ELSE [ rows[i] EXCEPT !.status = "snoozed",
                                    !.snooze_until = AdaptDatetime(until) ])
        ELSE rows[i] ]

\* UpdateSnooze without its WHERE clause: every row is snoozed.
UpdateSnoozeAll(rows, id, until) ==
    [ i \in 1..Len(rows) |->
        [ rows[i] EXCEPT !.status = "snoozed", !.snooze_until = AdaptDatetime(until) ] ]

\* UPDATE tasks SET status='snoozed', snooze_until=? WHERE id=?
UpdateSnooze(rows, id, until) ==
    [ i \in 1..Len(rows) |->
        IF rows[i].id = id THEN SnoozedRow(rows[i], until) ELSE rows[i] ]

\* SELECT description FROM tasks WHERE id=? ; fetchone()[0]
DescriptionOf(rows, id) ==
    rows[CHOOSE i \in 1..Len(rows) : rows[i].id = id].description

\* WHERE status IN ('pending', 'snoozed')
IsOpen(row) == row.status \in {"pending", "snoozed"}

\* The result sets SQLite may return for
\* SELECT id, status, description FROM tasks WHERE status IN ('pending','snoozed')
\* ORDER BY created_at DESC LIMIT n: the open rows in an order that is
\* non-increasing in created_at (rows of equal created_at in any order), cut to n.
ListOpen(rows, n) ==
    LET open == { i \in 1..Len(rows) : IsOpen(rows[i]) }
        k == Cardinality(open)
        orders == { f \in [1..k -> open] :
                      /\ \A a, b \in 1..k : a # b => f[a] # f[b]
                      /\ \A a \in 1..k : \A b \in 1..k :
                            a < b => ~TextGreater(rows[f[b]].created_at, rows[f[a]].created_at) }
        m == IF k < n THEN k ELSE n
    IN  { [ j \in 1..m |-> << rows[f[j]].id, rows[f[j]].status, rows[f[j]].description >> ]
          : f \in orders }

----------------------------------------------------------------------------
(* Inputs *)

\* TZ of the machine: America/Chicago (CST, the default LOCATION's zone),
\* UTC, Europe/Berlin (CET).
TzOffsets == { 0 - 6 * Hour, 0, Hour }

\* TEMP_THRESHOLD and DURATION_CHECKS of the deployment.
Thresholds == { 50 }
CheckCounts == { 1, 2 }

\* main.temp of the weather response, in degrees Fahrenheit.
Temps == { 50, 60 }

\* What resp["main"]["temp"] may be: a number, or None (JSON null).  A numeral
\* in a string is stored as its number (the column is REAL) and fails the
\* format of app.py:77 as None does, which leaves the state of the number
\* with the print failing.
NumberReadings == { Some(t) : t \in Temps }
Readings == NumberReadings \cup { NULL }

\* Two answers of the model: " Yes, test it\n" and "No, conditions are fine."
YesOutput ==
    << 32, 89, 101, 115, 44, 32, 116, 101, 115, 116, 32, 105, 116, 10 >>
NoText ==
    << 78, 111, 44, 32, 99, 111, 110, 100, 105, 116, 105, 111, 110, 115, 32,
       97, 114, 101, 32, 102, 105, 110, 101, 46 >>

\* What llm.invoke may return.
LlmOutputs == { YesOutput, NoText }

\* --task_id: absent, or an int.
TaskIdArgs == { NULL } \cup { Some(i) : i \in 0..2 }

\* --duration: absent, or a str: "", "1d", "3h", "xyz", "xd".
DurationArgs ==
    { NULL, Some(<<>>), Some(<< 49, 100 >>), Some(<< 51, 104 >>),
      Some(<< 120, 121, 122 >>), Some(<< 120, 100 >>) }

\* The command lines of snooze mode, as <<--task_id, --duration>>.
SnoozeCmdlines == TaskIdArgs \X DurationArgs

\* The command lines of check mode: cron's, which names neither option, and
\* "--task_id 3 --duration 1d", which check mode ignores.
CheckCmdlines == { << NULL, NULL >>, << Some(3), Some(<< 49, 100 >>) >> }

----------------------------------------------------------------------------
(* The state machine *)

NoArgs == [ mode |-> "none", task_id |-> NULL, duration |-> NULL ]

\* No process has started: every local of every process is unset, and no
\* INSERT waits for its commit.
FreshRun ==
    /\ args = [ p \in Procs |-> NoArgs ]
    /\ temp = [ p \in Procs |-> NULL ]
    /\ since = [ p \in Procs |-> NULL ]
    /\ count = [ p \in Procs |-> NULL ]
    /\ met = [ p \in Procs |-> NULL ]
    /\ sustained = [ p \in Procs |-> NULL ]
    /\ reasoning = [ p \in Procs |-> NULL ]
    /\ affirmed = [ p \in Procs |-> NULL ]
    /\ task_id = [ p \in Procs |-> NULL ]
    /\ snooze_until = [ p \in Procs |-> NULL ]
    /\ llm_calls = [ p \in Procs |-> 0 ]
    /\ reminders = [ p \in Procs |-> <<>> ]
    /\ listing = [ p \in Procs |-> NULL ]
    /\ metrics = [ p \in Procs |-> <<>> ]
    /\ error = [ p \in Procs |-> "" ]
    /\ snoozed_msg = [ p \in Procs |-> NULL ]
    /\ created = [ p \in Procs |-> <<>> ]
    /\ tasks_at_start = [ p \in Procs |-> <<>> ]
    /\ pending = [ p \in Procs |-> NULL ]

\* The tally after k check runs that took the affirmed branch, created their
\* task and ran to their end.
TallyAfter(k) == [ affirmed |-> k, create_failed |-> 0, completed |-> k ]

\* The tally with a more runs affirmed, f more failed in create_task before
\* their row was committed, c more ended.
Tallied(a, f, c) ==
    tally' = [ affirmed |-> tally.affirmed + a,
               create_failed |-> tally.create_failed + f,
               completed |-> tally.completed + c ]

\* A new database file: CREATE TABLE IF NOT EXISTS made both tables, empty.
Init ==
    /\ now = StartInstant
    /\ tz \in TzOffsets
    /\ TEMP_THRESHOLD \in Thresholds
    /\ DURATION_CHECKS \in CheckCounts
    /\ weather_logs = <<>>
    /\ tasks = <<>>
    /\ sqlite_sequence = [ tasks |-> 0, weather_logs |-> 0 ]
    /\ log_instants = <<>>
    /\ pc = [ p \in Procs |-> "idle" ]
    /\ FreshRun
    /\ n_checks = 0
    /\ n_snoozes = 0
    /\ tally = TallyAfter(0)

\* f with the value of process p replaced
Upd(f, p, v) == [ f EXCEPT ![p] = v ]

\* Process p goes on to position l; process p dies of the uncaught exception e.
\* "StorageError" is an exception of sqlite3, "ExternalCallError" one raised by
\* or for what is outside the process: the weather service and its response,
\* the model, mlflow, the standard output.
Goes(p, l) == pc' = Upd(pc, p, l) /\ UNCHANGED error
Fails(p, e) == pc' = Upd(pc, p, "failed") /\ error' = Upd(error, p, e)

\* A clock is read at instant t, not before the latest reading.
ClockRead(t) == t >= now /\ now' = t

\* A process that starts takes the first name no running process bears.
CanStart(p) == pc[p] = "idle" /\ \A q \in Procs : q < p => pc[q] # "idle"

\* Process p can write to the database file: no other process holds the write
\* lock, which a process has from its INSERT or UPDATE to its commit.  A
\* process that
\* cannot write waits (sqlite3's timeout of 5 seconds) and then raises
\* "database is locked".
CanWrite(p) == \A q \in Procs \ {p} : pending[q] = NULL

\* The INSERT of a row that process p has executed at instant at and not yet
\* committed.
PendingRow(table, row, at) ==
    Some([ op |-> "INSERT", table |-> table, row |-> row, at |-> at ])

\* The UPDATE of tasks, with its parameters (snooze_until, task_id), that
\* process p has executed and not yet committed.
PendingUpdate(until, id) ==
    Some([ op |-> "UPDATE", table |-> "tasks", row |-> << until, id >> ])

\* cron, or a user, starts a process in check mode, whether or not another is
\* running (app.py:22-62, 130-134).  mlflow.set_experiment, mlflow.start_run
\* or mlflow.log_param may raise, and so may the opening of the database.
StartCheck(p, cmdlines) ==
    /\ CanStart(p)
    /\ n_checks < MaxChecks
    /\ n_checks' = n_checks + 1
    /\ \E c \in cmdlines :
          args' = Upd(args, p, [ mode |-> "check", task_id |-> c[1], duration |-> c[2] ])
    /\ tasks_at_start' = Upd(tasks_at_start, p, tasks)
    /\ \/ Goes(p, "get_weather")
       \/ Fails(p, "ExternalCallError")
       \/ Fails(p, "StorageError")
    /\ UNCHANGED <<now, envvars, dbvars, pending, temp, since, count, met, sustained,
                   reasoning, affirmed, task_id, snooze_until, llm_calls, reminders,
                   listing, metrics, snoozed_msg, created, n_snoozes, tally>>

\* get_weather() up to its INSERT (app.py:66-75).  The request, its JSON or
\* resp["main"]["temp"] may raise, and so may the INSERT; else the INSERT
\* stamps the row with the clock and holds the write lock.
GetWeather(p, grid, readings) ==
    /\ pc[p] = "get_weather"
    /\ \/ /\ Fails(p, "ExternalCallError")
          /\ UNCHANGED <<now, pending>>
       \/ /\ Fails(p, "StorageError")
          /\ UNCHANGED <<now, pending>>
       \/ \E r \in readings, at \in grid :
            /\ CanWrite(p)
            /\ ClockRead(at)
            /\ pending' = Upd(pending, p,
                              PendingRow("weather_logs",
                                         WeatherRow(sqlite_sequence.weather_logs + 1, r, at),
                                         at))
            /\ Goes(p, "commit_weather")
    /\ UNCHANGED <<envvars, dbvars, args, temp, since, count, met, sustained, reasoning,
                   affirmed, task_id, snooze_until, llm_calls, reminders, listing,
                   metrics, snoozed_msg, created, tasks_at_start, n_checks, n_snoozes, tally>>

\* The rest of get_weather() and the metric after it (app.py:76-78, 136-137).
\* conn.commit() may raise, and the row is lost with the process; once the row
\* is committed, the print may raise (it does when temp is None: the format
\* .1f), which leaves temp of app.py:136 unbound, and mlflow.log_metric may
\* raise once temp is bound.
CommitWeather(p) ==
    /\ pc[p] = "commit_weather"
    /\ pending' = Upd(pending, p, NULL)
    /\ \/ /\ Fails(p, "StorageError")
          /\ UNCHANGED <<dbvars, temp, metrics>>
       \/ LET row == pending[p][1].row
          IN  /\ weather_logs' = Append(weather_logs, row)
              /\ sqlite_sequence' = [ sqlite_sequence EXCEPT !.weather_logs = row.id ]
              /\ log_instants' = Append(log_instants, pending[p][1].at)
              /\ UNCHANGED tasks
              /\ \/ /\ Fails(p, "ExternalCallError")
                    /\ UNCHANGED <<temp, metrics>>
                 \/ /\ row.temp # NULL
                    /\ temp' = Upd(temp, p, row.temp)
                    /\ \/ /\ metrics' = Upd(metrics, p,
                                            Append(metrics[p], << "current_temp", row.temp[1] >>))
                          /\ Goes(p, "check_sustained")
                       \/ /\ Fails(p, "ExternalCallError")
                          /\ UNCHANGED metrics
    /\ UNCHANGED <<now, envvars, args, since, count, met, sustained, reasoning, affirmed,
                   task_id, snooze_until, llm_calls, reminders, listing, snoozed_msg,
                   created, tasks_at_start, n_checks, n_snoozes, tally>>

\* since of check_sustained_warmth() (app.py:82): the clock is read.
ComputeSince(p, grid) ==
    /\ pc[p] = "check_sustained"
    /\ \E at \in grid :
         /\ ClockRead(at)
         /\ since' = Upd(since, p, Some(SinceOf(DatetimeNow(at, tz), DURATION_CHECKS)))
    /\ Goes(p, "count_since")
    /\ UNCHANGED <<envvars, dbvars, pending, args, temp, count, met, sustained, reasoning,
                   affirmed, task_id, snooze_until, llm_calls, reminders, listing,
                   metrics, snoozed_msg, created, tasks_at_start, n_checks, n_snoozes, tally>>

\* CheckSustained with the branch on its result lost: the model is consulted
\* whatever check_sustained_warmth() returned.
CheckSustainedUngated(p) ==
    /\ pc[p] = "count_since"
    /\ LET c == CountSince(weather_logs, TEMP_THRESHOLD, AdaptDatetime(since[p][1]))
       IN  /\ count' = Upd(count, p, Some(c))
           /\ met' = Upd(met, p, Some(Met(c, DURATION_CHECKS)))
           /\ sustained' = Upd(sustained, p, Some(Met(c, DURATION_CHECKS)))
           /\ Goes(p, "llm")
    /\ UNCHANGED <<now, envvars, dbvars, pending, args, temp, since, reasoning, affirmed,
                   task_id, snooze_until, llm_calls, metrics, reminders, listing,
                   snoozed_msg, created, tasks_at_start, n_checks, n_snoozes, tally>>

\* CheckSustained with the failure of the SELECT swallowed: the process goes on
\* to consult the model.
CheckSustainedSwallowsError(p) ==
    /\ pc[p] = "count_since"
    /\ LET c == CountSince(weather_logs, TEMP_THRESHOLD, AdaptDatetime(since[p][1]))
           m == Met(c, DURATION_CHECKS)
       IN  \/ /\ count' = Upd(count, p, Some(c))
              /\ met' = Upd(met, p, Some(m))
              /\ sustained' = Upd(sustained, p, Some(m))
              /\ IF m THEN /\ Goes(p, "llm")
                           /\ UNCHANGED metrics
                 ELSE /\ Goes(p, "report")
                      /\ metrics' = Upd(metrics, p,
                                        Append(metrics[p], << "tasks_created", 0 >>))
           \/ /\ pc' = Upd(pc, p, "llm")
              /\ error' = Upd(error, p, "StorageError")
              /\ UNCHANGED <<count, met, sustained, metrics>>
    /\ UNCHANGED <<now, envvars, dbvars, pending, args, temp, since, reasoning, affirmed,
                   task_id, snooze_until, llm_calls, reminders, listing, snoozed_msg,
                   created, tasks_at_start, n_checks, n_snoozes, tally>>

\* The rest of check_sustained_warmth() and the branch on it (app.py:83-90,
\* 139, 156-157): the SELECT over the rows committed by now.  The SELECT may
\* raise; the print may raise once count and met are bound, before the
\* function returns; when the warmth is not sustained, mlflow.log_metric may
\* raise.
CheckSustained(p) ==
    /\ pc[p] = "count_since"
    /\ \/ /\ Fails(p, "StorageError")
          /\ UNCHANGED <<count, met, sustained, metrics>>
       \/ LET c == CountSince(weather_logs, TEMP_THRESHOLD, AdaptDatetime(since[p][1]))
              m == Met(c, DURATION_CHECKS)
          IN  /\ count' = Upd(count, p, Some(c))
              /\ met' = Upd(met, p, Some(m))
              /\ \/ /\ Fails(p, "ExternalCallError")
                    /\ UNCHANGED <<sustained, metrics>>
                 \/ /\ sustained' = Upd(sustained, p, Some(m))
                    /\ IF m THEN /\ Goes(p, "llm")
                                 /\ UNCHANGED metrics
                       ELSE \/ /\ metrics' = Upd(metrics, p,
                                                 Append(metrics[p], << "tasks_created", 0 >>))
                               /\ Goes(p, "report")
                            \/ /\ Fails(p, "ExternalCallError")
                               /\ UNCHANGED metrics
    /\ UNCHANGED <<now, envvars, dbvars, pending, args, temp, since, reasoning, affirmed,
                   task_id, snooze_until, llm_calls, reminders, listing, snoozed_msg,
                   created, tasks_at_start, n_checks, n_snoozes, tally>>

\* reasoning = llm.invoke(prompt).strip() and mlflow.log_text (app.py:141-146).
\* The call may raise; log_text may raise once reasoning is bound.
InvokeLLM(p, outputs) ==
    /\ pc[p] = "llm"
    /\ llm_calls' = Upd(llm_calls, p, llm_calls[p] + 1)
    /\ \/ /\ Fails(p, "ExternalCallError")
          /\ UNCHANGED reasoning
       \/ \E out \in outputs :
            /\ reasoning' = Upd(reasoning, p, Some(Strip(out)))
            /\ \/ Goes(p, "decide")
               \/ Fails(p, "ExternalCallError")
    /\ UNCHANGED <<now, envvars, dbvars, pending, args, temp, since, count, met, sustained,
                   affirmed, task_id, snooze_until, reminders, listing, metrics,
                   snoozed_msg, created, tasks_at_start, n_checks, n_snoozes, tally>>

\* Decide with create_task() called on either answer.
DecideAlwaysCreates(p, grid) ==
    /\ pc[p] = "decide"
    /\ affirmed' = Upd(affirmed, p, Some(IsAffirmed(reasoning[p][1])))
    /\ Tallied(IF IsAffirmed(reasoning[p][1]) THEN 1 ELSE 0, 0, 0)
    /\ \E at \in grid :
         /\ CanWrite(p)
         /\ ClockRead(at)
         /\ pending' = Upd(pending, p,
                           PendingRow("tasks",
                                      TaskRow(sqlite_sequence.tasks + 1,
                                              Description(reasoning[p][1]), at),
                                      at))
         /\ Goes(p, "commit_task")
    /\ UNCHANGED <<envvars, dbvars, args, temp, since, count, met, sustained, reasoning,
                   task_id, snooze_until, llm_calls, reminders, listing, metrics,
                   snoozed_msg, created, tasks_at_start, n_checks, n_snoozes>>

\* Decide with de-duplication: no task is created while an open task exists.
DecideSkipsWhenOpen(p, grid) ==
    /\ pc[p] = "decide"
    /\ affirmed' = Upd(affirmed, p, Some(IsAffirmed(reasoning[p][1])))
    /\ Tallied(IF IsAffirmed(reasoning[p][1]) THEN 1 ELSE 0, 0, 0)
    /\ IF IsAffirmed(reasoning[p][1]) /\ ~(\E i \in 1..Len(tasks) : IsOpen(tasks[i]))
       THEN \E at \in grid :
            /\ CanWrite(p)
            /\ ClockRead(at)
            /\ pending' = Upd(pending, p,
                              PendingRow("tasks",
                                         TaskRow(sqlite_sequence.tasks + 1,
                                                 Description(reasoning[p][1]), at),
                                         at))
            /\ Goes(p, "commit_task")
            /\ UNCHANGED metrics
       ELSE /\ metrics' = Upd(metrics, p, Append(metrics[p], << "tasks_created", 0 >>))
            /\ Goes(p, "report")
            /\ UNCHANGED <<now, pending>>
    /\ UNCHANGED <<envvars, dbvars, args, temp, since, count, met, sustained, reasoning,
                   task_id, snooze_until, llm_calls, reminders, listing, snoozed_msg,
                   created, tasks_at_start, n_checks, n_snoozes>>

\* The branch on the reasoning, with create_task() up to its INSERT when
\* affirmed (app.py:148-149, 153-155; create_task app.py:94-99).  The INSERT
\* may raise; else it stamps the row with the clock and holds the write lock.
\* When the answer is declined, the print or mlflow.log_metric may raise.
Decide(p, grid) ==
    /\ pc[p] = "decide"
    /\ affirmed' = Upd(affirmed, p, Some(IsAffirmed(reasoning[p][1])))
    /\ IF IsAffirmed(reasoning[p][1])
       THEN \/ \E at \in grid :
                 /\ CanWrite(p)
                 /\ ClockRead(at)
                 /\ pending' = Upd(pending, p,
                                   PendingRow("tasks",
                                              TaskRow(sqlite_sequence.tasks + 1,
                                                      Description(reasoning[p][1]), at),
                                              at))
                 /\ Goes(p, "commit_task")
                 /\ Tallied(1, 0, 0)
                 /\ UNCHANGED metrics
            \/ /\ Fails(p, "StorageError")
               /\ Tallied(1, 1, 0)
               /\ UNCHANGED <<now, pending, metrics>>
       ELSE /\ \/ /\ metrics' = Upd(metrics, p, Append(metrics[p], << "tasks_created", 0 >>))
                  /\ Goes(p, "report")
               \/ /\ Fails(p, "ExternalCallError")
                  /\ UNCHANGED metrics
            /\ UNCHANGED <<now, pending, tally>>
    /\ UNCHANGED <<envvars, dbvars, args, temp, since, count, met, sustained, reasoning,
                   task_id, snooze_until, llm_calls, reminders, listing, snoozed_msg,
                   created, tasks_at_start, n_checks, n_snoozes>>

\* The rest of create_task() (app.py:100-102, 149).  conn.commit() may raise,
\* and the row is lost with the process; once the row is committed, the print
\* may raise, which leaves task_id of app.py:149 unbound.
CommitTask(p) ==
    /\ pc[p] = "commit_task"
    /\ pending' = Upd(pending, p, NULL)
    /\ \/ /\ Fails(p, "StorageError")
          /\ Tallied(0, 1, 0)
          /\ UNCHANGED <<tasks, sqlite_sequence, created, task_id>>
       \/ LET row == pending[p][1].row
          IN  /\ tasks' = Append(tasks, row)
              /\ UNCHANGED tally
              /\ sqlite_sequence' = [ sqlite_sequence EXCEPT !.tasks = row.id ]
              /\ created' = Upd(created, p, Append(created[p], row.id))
              /\ \/ /\ Fails(p, "ExternalCallError")
                    /\ UNCHANGED task_id
                 \/ /\ task_id' = Upd(task_id, p, Some(row.id))
                    /\ Goes(p, "send_reminder")
    /\ UNCHANGED <<now, envvars, weather_logs, log_instants, args, temp, since, count, met,
                   sustained, reasoning, affirmed, snooze_until, llm_calls, reminders,
                   listing, metrics, snoozed_msg, tasks_at_start, n_checks, n_snoozes>>

\* SendReminder for the oldest task of the store instead of the one just created.
SendReminderForOldest(p) ==
    /\ pc[p] = "send_reminder"
    /\ reminders' = Upd(reminders, p,
                        Append(reminders[p], << tasks[1].id, tasks[1].description >>))
    /\ metrics' = Upd(metrics, p,
                      metrics[p] \o << << "tasks_created", 1 >>, << "reminders_sent", 1 >> >>)
    /\ Goes(p, "report")
    /\ UNCHANGED <<now, envvars, dbvars, pending, args, temp, since, count, met, sustained,
                   reasoning, affirmed, task_id, snooze_until, llm_calls, listing,
                   snoozed_msg, created, tasks_at_start, n_checks, n_snoozes, tally>>

\* send_reminder(task_id) and the two metrics (app.py:104-110, 150-152).  The
\* SELECT may raise, and so may the print, with no reminder out; once the
\* reminder is printed, the first mlflow.log_metric may raise, or the second.
SendReminder(p) ==
    /\ pc[p] = "send_reminder"
    /\ \/ /\ Fails(p, "StorageError")
          /\ UNCHANGED <<reminders, metrics>>
       \/ /\ Fails(p, "ExternalCallError")
          /\ UNCHANGED <<reminders, metrics>>
       \/ /\ reminders' = Upd(reminders, p,
                              Append(reminders[p],
                                     << task_id[p][1], DescriptionOf(tasks, task_id[p][1]) >>))
          /\ \/ /\ Fails(p, "ExternalCallError")
                /\ UNCHANGED metrics
             \/ /\ Fails(p, "ExternalCallError")
                /\ metrics' = Upd(metrics, p, Append(metrics[p], << "tasks_created", 1 >>))
             \/ /\ metrics' = Upd(metrics, p,
                                  metrics[p] \o << << "tasks_created", 1 >>,
                                                   << "reminders_sent", 1 >> >>)
                /\ Goes(p, "report")
    /\ UNCHANGED <<now, envvars, dbvars, pending, args, temp, since, count, met, sustained,
                   reasoning, affirmed, task_id, snooze_until, llm_calls, listing,
                   snoozed_msg, created, tasks_at_start, n_checks, n_snoozes, tally>>

\* LIMIT 5 of the report (app.py:161).
ReportLimit == 5

\* Report pending tasks, and the end of the mlflow run (app.py:159-167, 131).
\* The SELECT may raise.  The print of the heading may raise, with nothing
\* listed, or the print of a row, with the rows before it listed; once the
\* whole list is printed, the end of the run may raise.
Report(p) ==
    /\ pc[p] = "report"
    /\ \/ /\ Fails(p, "StorageError")
          /\ UNCHANGED listing
       \/ \E l \in ListOpen(tasks, ReportLimit) :
            \/ /\ listing' = Upd(listing, p, Some(l))
               /\ \/ Goes(p, "done")
                  \/ Fails(p, "ExternalCallError")
            \/ /\ l # <<>>
               /\ Fails(p, "ExternalCallError")
               /\ \/ UNCHANGED listing
                  \/ \E k \in 0..(Len(l) - 1) :
                        listing' = Upd(listing, p, Some(SubSeq(l, 1, k)))
    /\ UNCHANGED <<now, envvars, dbvars, pending, args, temp, since, count, met, sustained,
                   reasoning, affirmed, task_id, snooze_until, llm_calls, reminders,
                   metrics, snoozed_msg, created, tasks_at_start, n_checks, n_snoozes, tally>>

\* args.task_id and args.duration as conditions (app.py:169): None, 0 and ""
\* are false.
TruthyInt(v) == v # NULL /\ v[1] # 0
TruthyStr(v) == v # NULL /\ v[1] # <<>>

\* A user runs the process with --mode snooze, whether or not another process
\* is running (app.py:22-62, 169).  mlflow.set_experiment may raise, and so may
\* the opening of the database.  Without a task id or a duration the process
\* goes to its end.
SnoozeRun(p, cmdlines) ==
    /\ CanStart(p)
    /\ n_snoozes < MaxSnoozes
    /\ n_snoozes' = n_snoozes + 1
    /\ tasks_at_start' = Upd(tasks_at_start, p, tasks)
    /\ \E c \in cmdlines :
          /\ args' = Upd(args, p, [ mode |-> "snooze", task_id |-> c[1], duration |-> c[2] ])
          /\ \/ Fails(p, "ExternalCallError")
             \/ Fails(p, "StorageError")
             \/ IF TruthyInt(c[1]) /\ TruthyStr(c[2])
                THEN Goes(p, "snooze_task")
                ELSE Goes(p, "done")
    /\ UNCHANGED <<now, envvars, dbvars, pending, temp, since, count, met, sustained,
                   reasoning, affirmed, task_id, snooze_until, llm_calls, reminders,
                   listing, metrics, snoozed_msg, created, n_checks, tally>>

\* snooze_task() up to snooze_until (app.py:114-121): the clock is read, then
\* int(), timedelta() or now + delta may raise.
SnoozeDeadline(p, grid) ==
    /\ pc[p] = "snooze_task"
    /\ \E at \in grid :
         LET parsed == ParseDuration(args[p].duration[1])
             deadline == DatetimePlus(DatetimeNow(at, tz), parsed.delta[1])
         IN  /\ ClockRead(at)
             /\ IF parsed.error # ""
                THEN /\ Fails(p, parsed.error)
                     /\ UNCHANGED snooze_until
                ELSE IF ~InRange(deadline)
                THEN /\ Fails(p, "OverflowError")
                     /\ UNCHANGED snooze_until
                ELSE /\ snooze_until' = Upd(snooze_until, p, Some(deadline))
                     /\ Goes(p, "update_task")
    /\ UNCHANGED <<envvars, dbvars, pending, args, temp, since, count, met, sustained,
                   reasoning, affirmed, task_id, llm_calls, reminders, listing, metrics,
                   snoozed_msg, created, tasks_at_start, n_checks, n_snoozes, tally>>

\* The UPDATE of snooze_task() (app.py:122-125).  It waits for the write lock
\* and may raise; else it holds the write lock, and the other processes see
\* the table as it was until the commit.
SnoozeTask(p) ==
    /\ pc[p] = "update_task"
    /\ \/ /\ Fails(p, "StorageError")
          /\ UNCHANGED pending
       \/ /\ CanWrite(p)
          /\ pending' = Upd(pending, p,
                            PendingUpdate(snooze_until[p][1], args[p].task_id[1]))
          /\ Goes(p, "commit_snooze")
    /\ UNCHANGED <<now, envvars, dbvars, args, temp, since, count, met, sustained,
                   reasoning, affirmed, task_id, snooze_until, llm_calls, reminders,
                   listing, metrics, snoozed_msg, created, tasks_at_start, n_checks,
                   n_snoozes, tally>>

\* The rest of snooze_task() (app.py:126-127).  conn.commit() may raise, which
\* leaves the table as it was; once the table is updated, the print may raise.
CommitSnooze(p) ==
    /\ pc[p] = "commit_snooze"
    /\ pending' = Upd(pending, p, NULL)
    /\ \/ /\ Fails(p, "StorageError")
          /\ UNCHANGED <<tasks, snoozed_msg>>
       \/ LET until == pending[p][1].row[1]
              id == pending[p][1].row[2]
          IN  /\ tasks' = UpdateSnooze(tasks, id, until)
              /\ \/ /\ Fails(p, "ExternalCallError")
                    /\ UNCHANGED snoozed_msg
                 \/ /\ snoozed_msg' = Upd(snoozed_msg, p,
                                          Some(<< id, AdaptDatetime(until) >>))
                    /\ Goes(p, "done")
    /\ UNCHANGED <<now, envvars, weather_logs, sqlite_sequence, log_instants, args, temp,
                   since, count, met, sustained, reasoning, affirmed, task_id,
                   snooze_until, llm_calls, reminders, listing, metrics, created,
                   tasks_at_start, n_checks, n_snoozes, tally>>

\* conn.close() and the end of process p (app.py:172), or its death by the
\* uncaught exception; its locals are gone.  A check run that ends here after
\* it took the affirmed branch has completed.
Exit(p) ==
    /\ pc[p] \in {"done", "failed"}
    /\ pc' = Upd(pc, p, "idle")
    /\ args' = Upd(args, p, NoArgs)
    /\ temp' = Upd(temp, p, NULL)
    /\ since' = Upd(since, p, NULL)
    /\ count' = Upd(count, p, NULL)
    /\ met' = Upd(met, p, NULL)
    /\ sustained' = Upd(sustained, p, NULL)
    /\ reasoning' = Upd(reasoning, p, NULL)
    /\ affirmed' = Upd(affirmed, p, NULL)
    /\ task_id' = Upd(task_id, p, NULL)
    /\ snooze_until' = Upd(snooze_until, p, NULL)
    /\ llm_calls' = Upd(llm_calls, p, 0)
    /\ reminders' = Upd(reminders, p, <<>>)
    /\ listing' = Upd(listing, p, NULL)
    /\ metrics' = Upd(metrics, p, <<>>)
    /\ error' = Upd(error, p, "")
    /\ snoozed_msg' = Upd(snoozed_msg, p, NULL)
    /\ created' = Upd(created, p, <<>>)
    /\ tasks_at_start' = Upd(tasks_at_start, p, <<>>)
    /\ Tallied(0, 0, IF pc[p] = "done" /\ affirmed[p] = Some(TRUE) THEN 1 ELSE 0)
    /\ UNCHANGED <<now, envvars, dbvars, pending, n_checks, n_snoozes>>

\* No process is running.
NoneRunning == \A q \in Procs : pc[q] = "idle"

\* A step of some process.  Nothing in app.py keeps a process from starting
\* while another runs: cron starts a check, and a user a snooze, at any time.
Next ==
    \E p \in Procs :
        \/ StartCheck(p, CheckCmdlines)
        \/ GetWeather(p, RunGrid, Readings)
        \/ CommitWeather(p)
        \/ ComputeSince(p, RunGrid)
        \/ CheckSustained(p)
        \/ InvokeLLM(p, LlmOutputs)
        \/ Decide(p, RunGrid)
        \/ CommitTask(p)
        \/ SendReminder(p)
        \/ Report(p)
        \/ SnoozeRun(p, SnoozeCmdlines)
        \/ SnoozeDeadline(p, RunGrid)
        \/ SnoozeTask(p)
        \/ CommitSnooze(p)
        \/ Exit(p)

Spec == Init /\ [][Next]_vars

----------------------------------------------------------------------------
(* check_sustained_warmth() alone: process 1 is about to call it, over any   *)
(* log of up to MaxLogRows rows that earlier runs and this one have written; *)
(* a run that died of a reading of None has left a row whose temp is NULL.   *)

\* The value v for process 1, the value rest for every other process.
OfFirst(v, rest) == [ p \in Procs |-> IF p = 1 THEN v ELSE rest ]

CheckArgs == [ mode |-> "check", task_id |-> NULL, duration |-> NULL ]

InitSustained ==
    /\ tz \in TzOffsets
    /\ TEMP_THRESHOLD \in Thresholds
    /\ DURATION_CHECKS \in 1..MaxLogRows
    /\ \E n \in 1..MaxLogRows :
         \E ins \in [1..n -> WindowGrid], ts \in [1..n -> Readings] :
            /\ \A i \in 1..(n - 1) : ins[i] <= ins[i + 1]
            /\ ts[n] # NULL
            /\ weather_logs = [ i \in 1..n |-> WeatherRow(i, ts[i], ins[i]) ]
            /\ log_instants = [ i \in 1..n |-> ins[i] ]
            /\ sqlite_sequence = [ tasks |-> 0, weather_logs |-> n ]
            /\ now = ins[n]
            /\ temp = OfFirst(ts[n], NULL)
            /\ metrics = OfFirst(<< << "current_temp", ts[n][1] >> >>, <<>>)
            /\ n_checks = n
    /\ tasks = <<>>
    /\ pending = OfFirst(NULL, NULL)
    /\ pc = OfFirst("check_sustained", "idle")
    /\ args = OfFirst(CheckArgs, NoArgs)
    /\ since = OfFirst(NULL, NULL)
    /\ count = OfFirst(NULL, NULL)
    /\ met = OfFirst(NULL, NULL)
    /\ sustained = OfFirst(NULL, NULL)
    /\ reasoning = OfFirst(NULL, NULL)
    /\ affirmed = OfFirst(NULL, NULL)
    /\ task_id = OfFirst(NULL, NULL)
    /\ snooze_until = OfFirst(NULL, NULL)
    /\ llm_calls = OfFirst(0, 0)
    /\ reminders = OfFirst(<<>>, <<>>)
    /\ listing = OfFirst(NULL, NULL)
    /\ error = OfFirst("", "")
    /\ snoozed_msg = OfFirst(NULL, NULL)
    /\ created = OfFirst(<<>>, <<>>)
    /\ tasks_at_start = OfFirst(<<>>, <<>>)
    /\ n_snoozes = 0
    /\ tally = TallyAfter(Len(tasks))

NextSustained ==
    \/ ComputeSince(1, WindowGrid)
    \/ CheckSustained(1)

SpecSustained == InitSustained /\ [][NextSustained]_vars

----------------------------------------------------------------------------
(* The stores after k check runs at StartInstant, each of which recorded a  *)
(* warm reading, found the warmth sustained (DURATION_CHECKS = 1) and was   *)
(* affirmed by the model with YesOutput; then the tasks of `snoozed` were   *)
(* snoozed for 5 hours at StartInstant.                                     *)

\* "Yes, test it"
YesText ==
    << 89, 101, 115, 44, 32, 116, 101, 115, 116, 32, 105, 116 >>

WarmTemp == CHOOSE t \in Temps : \A th \in Thresholds : t > th

\* Whether a process in zone offset finds one warm reading, just written,
\* sustained when DURATION_CHECKS = 1.
SustainedAtOnce(offset, threshold) ==
    Met(CountSince(<< WeatherRow(1, Some(WarmTemp), StartInstant) >>, threshold,
                   AdaptDatetime(SinceOf(DatetimeNow(StartInstant, offset), 1))), 1)

\* timedelta(hours=5)
FiveHours == TimedeltaHours(PyLong(FALSE, << 5 >>))[1]

StoresAfter(k, snoozed) ==
    /\ DURATION_CHECKS = 1
    /\ TEMP_THRESHOLD \in Thresholds
    /\ tz \in TzOffsets
    /\ k > 0 => SustainedAtOnce(tz, TEMP_THRESHOLD)
    /\ now = StartInstant
    /\ weather_logs = [ i \in 1..k |-> WeatherRow(i, Some(WarmTemp), StartInstant) ]
    /\ log_instants = [ i \in 1..k |-> StartInstant ]
    /\ tasks = [ i \in 1..k |->
                   IF i \in snoozed
                   THEN SnoozedRow(TaskRow(i, Description(YesText), StartInstant),
                                   DatetimePlus(DatetimeNow(StartInstant, tz), FiveHours))
                   ELSE TaskRow(i, Description(YesText), StartInstant) ]
    /\ sqlite_sequence = [ tasks |-> k, weather_logs |-> k ]

----------------------------------------------------------------------------
(* The interpretation of the reasoning alone: process 1 has found the       *)
(* warmth sustained and is about to call the model, which may answer any    *)
(* text of up to MaxTextLen characters.                                     *)

\* "Y", "y", "e", "S", "N", "o", " ", and U+1E99 (y with ring above, whose
\* upper case is "Y" and a combining ring), U+00DF (sharp s, whose upper case
\* is "SS") and the carriage return.
TextAlphabet == { 89, 121, 101, 83, 78, 111, 32, 7833, 223, 13 }

\* Every text of up to n characters of the alphabet.
Texts(alphabet, n) == UNION { [1..k -> alphabet] : k \in 0..n }

WideLlmOutputs == LlmOutputs \cup { YesText } \cup Texts(TextAlphabet, MaxTextLen)

InitInterpret ==
    /\ DURATION_CHECKS = 1
    /\ TEMP_THRESHOLD \in Thresholds
    /\ tz \in { o \in TzOffsets : SustainedAtOnce(o, TEMP_THRESHOLD) }
    /\ now = StartInstant
    /\ weather_logs = << WeatherRow(1, Some(WarmTemp), StartInstant) >>
    /\ log_instants = << StartInstant >>
    /\ tasks = <<>>
    /\ sqlite_sequence = [ tasks |-> 0, weather_logs |-> 1 ]
    /\ pending = OfFirst(NULL, NULL)
    /\ pc = OfFirst("llm", "idle")
    /\ args = OfFirst(CheckArgs, NoArgs)
    /\ temp = OfFirst(Some(WarmTemp), NULL)
    /\ since = OfFirst(Some(SinceOf(DatetimeNow(StartInstant, tz), 1)), NULL)
    /\ count = OfFirst(Some(1), NULL)
    /\ met = OfFirst(Some(TRUE), NULL)
    /\ sustained = OfFirst(Some(TRUE), NULL)
    /\ reasoning = OfFirst(NULL, NULL)
    /\ affirmed = OfFirst(NULL, NULL)
    /\ task_id = OfFirst(NULL, NULL)
    /\ snooze_until = OfFirst(NULL, NULL)
    /\ llm_calls = OfFirst(0, 0)
    /\ reminders = OfFirst(<<>>, <<>>)
    /\ listing = OfFirst(NULL, NULL)
    /\ metrics = OfFirst(<< << "current_temp", WarmTemp >> >>, <<>>)
    /\ error = OfFirst("", "")
    /\ snoozed_msg = OfFirst(NULL, NULL)
    /\ created = OfFirst(<<>>, <<>>)
    /\ tasks_at_start = OfFirst(<<>>, <<>>)
    /\ n_checks = 1
    /\ n_snoozes = 0
    /\ tally = TallyAfter(Len(tasks))

NextInterpret ==
    \/ InvokeLLM(1, WideLlmOutputs)
    \/ Decide(1, TimeGrid)
    \/ CommitTask(1)

SpecInterpret == InitInterpret /\ [][NextInterpret]_vars

----------------------------------------------------------------------------
(* The snooze mode alone: over stores of up to two tasks, each pending or   *)
(* snoozed before, the last snooze process of the behaviour, with any task  *)
(* id and any duration of up to MaxTextLen characters.                      *)

\* "0", "1", "2", "d", "h", "x", "-", the carriage return and U+0663
\* (ARABIC-INDIC DIGIT THREE).
DurationAlphabet == { 48, 49, 50, 100, 104, 120, 45, 13, 1635 }

\* Durations that reach the limits of timedelta and datetime: "1000000d" (a
\* date datetime can hold), "9999999d" (past the year 9999), "-999999d"
\* (before the year 1), "1000000000d" and "99999999999h" (more than
\* timedelta holds).
HugeDurationArgs ==
    { Some(<< 49, 48, 48, 48, 48, 48, 48, 100 >>),
      Some(<< 57, 57, 57, 57, 57, 57, 57, 100 >>),
      Some(<< 45, 57, 57, 57, 57, 57, 57, 100 >>),
      Some(<< 49, 48, 48, 48, 48, 48, 48, 48, 48, 48, 100 >>),
      Some(<< 57, 57, 57, 57, 57, 57, 57, 57, 57, 57, 57, 104 >>) }

WideDurationArgs ==
    DurationArgs \cup HugeDurationArgs
    \cup { Some(d) : d \in Texts(DurationAlphabet, MaxTextLen) }

InitSnooze ==
    /\ \E k \in 0..2 : \E snoozed \in SUBSET (1..k) : StoresAfter(k, snoozed)
    /\ pc = [ p \in Procs |-> "idle" ]
    /\ FreshRun
    /\ n_checks = Len(weather_logs)
    /\ n_snoozes = MaxSnoozes - 1
    /\ tally = TallyAfter(Len(tasks))

NextSnooze ==
    \/ SnoozeRun(1, TaskIdArgs \X WideDurationArgs)
    \/ SnoozeDeadline(1, TimeGrid)
    \/ SnoozeTask(1)
    \/ CommitSnooze(1)
    \/ Exit(1)

SpecSnooze == InitSnooze /\ [][NextSnooze]_vars

----------------------------------------------------------------------------
(* The life of a task past its deadline: over stores of one or two tasks,   *)
(* the last two processes of the behaviour, a snooze process, whose         *)
(* duration may be zero, and a check process, the steps of which fall in    *)
(* any order.                                                               *)

\* cron's command line, which names neither --task_id nor --duration
CronCmdlines == { << NULL, NULL >> }

\* The instants at which the clocks are read: a fraction of a second after
\* StartInstant, and the next half hour.
LifecycleGrid == { StartInstant + 1, StartInstant + 30 * Minute }

\* --duration: deadlines that pass at once ("0h", "0d") and one that does not ("3h").
ExpiringDurationArgs ==
    { Some(<< 48, 104 >>), Some(<< 48, 100 >>), Some(<< 51, 104 >>) }

InitLifecycle ==
    /\ \E k \in 1..2 : \E snoozed \in SUBSET (1..k) : StoresAfter(k, snoozed)
    /\ pc = [ p \in Procs |-> "idle" ]
    /\ FreshRun
    /\ n_checks = MaxChecks - 1
    /\ n_snoozes = MaxSnoozes - 1
    /\ tally = TallyAfter(Len(tasks))

NextLifecycle ==
    \E p \in Procs :
        \/ StartCheck(p, CronCmdlines)
        \/ GetWeather(p, LifecycleGrid, NumberReadings)
        \/ CommitWeather(p)
        \/ ComputeSince(p, LifecycleGrid)
        \/ CheckSustained(p)
        \/ InvokeLLM(p, LlmOutputs)
        \/ Decide(p, LifecycleGrid)
        \/ CommitTask(p)
        \/ SendReminder(p)
        \/ Report(p)
        \/ SnoozeRun(p, TaskIdArgs \X ExpiringDurationArgs)
        \/ SnoozeDeadline(p, LifecycleGrid)
        \/ SnoozeTask(p)
        \/ CommitSnooze(p)
        \/ Exit(p)

SpecLifecycle == InitLifecycle /\ [][NextLifecycle]_vars

----------------------------------------------------------------------------
(* The report alone: a check process is about to report, over stores of up  *)
(* to ReportLimit + 1 tasks that earlier check processes created in one     *)
(* second or in two consecutive seconds.  Each earlier process recorded a   *)
(* warm reading, found it sustained (DURATION_CHECKS = 1) and was affirmed; *)
(* some of the tasks were snoozed for 5 hours since.  This process read a   *)
(* cold temperature; where the earlier readings made its check sustained,   *)
(* the model declined.                                                      *)

ColdTemp == CHOOSE t \in Temps : \A th \in Thresholds : ~(t > th)

\* The instants at which the tasks of the store were created.
ReportInstants == { StartInstant, StartInstant + Second }

InitReport ==
    /\ DURATION_CHECKS = 1
    /\ TEMP_THRESHOLD \in Thresholds
    /\ tz \in TzOffsets
    /\ now = StartInstant + Second
    /\ \E k \in 0..(ReportLimit + 1) :
         \E ins \in [1..k -> ReportInstants], snoozed \in { {}, {1} \cap (1..k), 1..k } :
            /\ \A i \in 1..(k - 1) : ins[i] <= ins[i + 1]
            /\ k > 0 => SustainedAtOnce(tz, TEMP_THRESHOLD)
            /\ weather_logs = [ i \in 1..(k + 1) |->
                                 IF i <= k THEN WeatherRow(i, Some(WarmTemp), ins[i])
                                 ELSE WeatherRow(i, Some(ColdTemp), now) ]
            /\ log_instants = [ i \in 1..(k + 1) |-> IF i <= k THEN ins[i] ELSE now ]
            /\ tasks = [ i \in 1..k |->
                           IF i \in snoozed
                           THEN SnoozedRow(TaskRow(i, Description(YesText), ins[i]),
                                           DatetimePlus(DatetimeNow(now, tz), FiveHours))
                           ELSE TaskRow(i, Description(YesText), ins[i]) ]
            /\ sqlite_sequence = [ tasks |-> k, weather_logs |-> k + 1 ]
            /\ n_checks = k + 1
    /\ pending = OfFirst(NULL, NULL)
    /\ pc = OfFirst("report", "idle")
    /\ args = OfFirst(CheckArgs, NoArgs)
    /\ temp = OfFirst(Some(ColdTemp), NULL)
    /\ since = OfFirst(Some(SinceOf(DatetimeNow(now, tz), DURATION_CHECKS)), NULL)
    /\ count = OfFirst(Some(CountSince(weather_logs, TEMP_THRESHOLD,
                                       AdaptDatetime(since[1][1]))), NULL)
    /\ met = OfFirst(Some(Met(count[1][1], DURATION_CHECKS)), NULL)
    /\ sustained = OfFirst(met[1], NULL)
    /\ reasoning = OfFirst(IF met[1][1] THEN Some(NoText) ELSE NULL, NULL)
    /\ affirmed = OfFirst(IF met[1][1] THEN Some(FALSE) ELSE NULL, NULL)
    /\ snooze_until = OfFirst(NULL, NULL)
    /\ llm_calls = OfFirst(IF met[1][1] THEN 1 ELSE 0, 0)
    /\ task_id = OfFirst(NULL, NULL)
    /\ reminders = OfFirst(<<>>, <<>>)
    /\ listing = OfFirst(NULL, NULL)
    /\ metrics = OfFirst(<< << "current_temp", ColdTemp >>, << "tasks_created", 0 >> >>, <<>>)
    /\ error = OfFirst("", "")
    /\ snoozed_msg = OfFirst(NULL, NULL)
    /\ created = OfFirst(<<>>, <<>>)
    /\ tasks_at_start = OfFirst(tasks, <<>>)
    /\ n_snoozes = 0
    /\ tally = TallyAfter(Len(tasks))

NextReport == Report(1)

SpecReport == InitReport /\ [][NextReport]_vars

----------------------------------------------------------------------------
(* Processes that overlap: over a store of no task or one, the last two     *)
(* processes of the behaviour, two check processes or a check process and   *)
(* a snooze process, the steps of which fall in any order: one may read the *)
(* clock or the tables between the clock reading and the SELECT of the      *)
(* other, or between its INSERT and its commit.  The machine's zone is UTC. *)

\* The instants at which the clocks are read: a fraction of a second into one
\* second, and a later second.
OverlapGrid == { StartInstant + 1, StartInstant + 2 * Second }

\* "--task_id 1 --duration 1d" and "--task_id 2 --duration 3h"
OverlapSnoozeCmdlines ==
    { << Some(1), Some(<< 49, 100 >>) >>, << Some(2), Some(<< 51, 104 >>) >> }

InitOverlap ==
    /\ \E k \in 0..1 : \E snoozed \in SUBSET (1..k) : StoresAfter(k, snoozed)
    /\ tz = 0
    /\ pc = [ p \in Procs |-> "idle" ]
    /\ FreshRun
    /\ \/ n_checks = MaxChecks - 2 /\ n_snoozes = MaxSnoozes
       \/ n_checks = MaxChecks - 1 /\ n_snoozes = MaxSnoozes - 1
    /\ tally = TallyAfter(Len(tasks))

NextOverlap ==
    \E p \in Procs :
        \/ StartCheck(p, CronCmdlines)
        \/ GetWeather(p, OverlapGrid, NumberReadings)
        \/ CommitWeather(p)
        \/ ComputeSince(p, OverlapGrid)
        \/ CheckSustained(p)
        \/ InvokeLLM(p, LlmOutputs)
        \/ Decide(p, OverlapGrid)
        \/ CommitTask(p)
        \/ SendReminder(p)
        \/ Report(p)
        \/ SnoozeRun(p, OverlapSnoozeCmdlines)
        \/ SnoozeDeadline(p, OverlapGrid)
        \/ SnoozeTask(p)
        \/ CommitSnooze(p)
        \/ Exit(p)

SpecOverlap == InitOverlap /\ [][NextOverlap]_vars

----------------------------------------------------------------------------
(* Properties *)

\* The datetime a stored ISO text stands for.
DatetimeOf(text) ==
    << text[1], text[2] * Second + (IF Len(text) > 2 THEN text[3] ELSE 0) >>

\* Whether the datetime a is later than the datetime b.
Later(a, b) == a[1] > b[1] \/ (a[1] = b[1] /\ a[2] > b[2])

\* The reading of the process's clock at the instant `now`, less or plus a
\* number of ticks.
LocalNowPlus(ticks) == Normalized(0, now + tz + ticks)

\* window = 30 minutes x required_count, in ticks
Window == 30 * Minute * DURATION_CHECKS

\* check_sustained_warmth of process 1 has returned: `now` is the instant at
\* which it read the clock, and sustained[1] its result.
JustEvaluated == sustained[1] # NULL

\* The rows whose value is above the threshold and whose timestamp is later
\* than the process's clock reading less the window.
QualifyingRows ==
    { i \in 1..Len(weather_logs) :
        /\ weather_logs[i].temp # NULL
        /\ weather_logs[i].temp[1] > TEMP_THRESHOLD
        /\ Later(DatetimeOf(weather_logs[i].timestamp), LocalNowPlus(0 - Window)) }

\* C1: the sustained check returns true exactly when the number of observations
\* with value strictly above the threshold and timestamp strictly later than
\* now - window (now being the clock reading of the check, window = 30 minutes
\* x required_count) is at least required_count; so required_count - 1
\* qualifying samples and one non-qualifying sample in the window give false.
C1_SustainedIffCount ==
    JustEvaluated => (sustained[1][1] <=> Cardinality(QualifyingRows) >= DURATION_CHECKS)

\* C1 witness: DURATION_CHECKS >= 2 rows, all inside the window, all but one of
\* them above the threshold, and the check has returned false.
C1_Witness ==
    /\ JustEvaluated
    /\ tz = 0
    /\ sustained[1] = Some(FALSE)
    /\ DURATION_CHECKS >= 2
    /\ Len(weather_logs) = DURATION_CHECKS
    /\ \A i \in 1..Len(weather_logs) :
          Later(DatetimeOf(weather_logs[i].timestamp), LocalNowPlus(0 - Window))
    /\ Cardinality(QualifyingRows) = DURATION_CHECKS - 1

\* C2: an observation written at or before since = (instant of the check) -
\* window is not among the rows the sustained check counts, whatever its value.
C2_OutsideWindowNeverCounts ==
    JustEvaluated =>
        \A i \in 1..Len(weather_logs) :
            log_instants[i] <= now - Window =>
                ~LogMatches(weather_logs[i], TEMP_THRESHOLD, AdaptDatetime(since[1][1]))

\* Process p is a check process that has ended, by reaching the end of app.py
\* or by an uncaught exception.
CheckRunEnded(p) == args[p].mode = "check" /\ pc[p] \in {"done", "failed"}

\* The sustained check of process p returned true and its answer was taken
\* as affirmed (app.py:139, 148).
SustainedAndAffirmed(p) == sustained[p] = Some(TRUE) /\ affirmed[p] = Some(TRUE)

\* The step is one of process p.
StepOf(p) == pc'[p] # pc[p]

\* The processes that insert a task row in the step.
Creators == { p \in Procs : pc'[p] # "idle" /\ Len(created'[p]) > Len(created[p]) }

\* The ids of the rows of a table.
IdsOf(rows) == { rows[i].id : i \in 1..Len(rows) }

\* Process p has taken its answer as affirmed (app.py:148).
TakenAsAffirmed(p) == SustainedAndAffirmed(p)

\* Process p died in create_task before its row was committed: the INSERT or
\* the commit failed.
DiedInCreateTask(p) ==
    /\ pc[p] = "failed"
    /\ error[p] = "StorageError"
    /\ affirmed[p] = Some(TRUE)
    /\ task_id[p] = NULL

\* C3 as claimed: a check run creates a task if and only if its sustained
\* check held and its reasoning response was taken as affirmed, and no run
\* creates more than one task.
C3_TaskIffSustainedAndAffirmed ==
    \A p \in Procs :
        /\ Len(created[p]) <= 1
        /\ CheckRunEnded(p) => (Len(created[p]) = 1 <=> TakenAsAffirmed(p))

\* C3: a check run creates a task if and only if its sustained check held, its
\* reasoning response was taken as affirmed and neither the INSERT of
\* create_task nor its commit failed; the run whose INSERT or commit failed
\* has died of it.  A run that is not sustained, or whose response is
\* declined, adds no row; no run creates more than one task; the tasks table
\* gains a row only when a run commits its task.
C3_TaskIffAffirmedAndInserted ==
    /\ [](\A p \in Procs :
             /\ Len(created[p]) <= 1
             /\ created[p] # <<>> =>
                   /\ args[p].mode = "check"
                   /\ TakenAsAffirmed(p)
                   /\ created[p][1] \in IdsOf(tasks)
             /\ CheckRunEnded(p) =>
                   (Len(created[p]) = 1 <=> TakenAsAffirmed(p) /\ ~DiedInCreateTask(p)))
    /\ [][ /\ Len(tasks') = Len(tasks) + Cardinality(Creators)
           /\ Cardinality(Creators) <= 1
           /\ \A i \in 1..Len(tasks) : tasks'[i].id = tasks[i].id ]_vars

\* C3 witness: the second check run has ended; it was sustained and affirmed
\* and created task 2; the task of the first run is in the store.
C3_Witness ==
    /\ CheckRunEnded(1)
    /\ pc[1] = "done"
    /\ TakenAsAffirmed(1)
    /\ created[1] = << 2 >>
    /\ Len(tasks_at_start[1]) = 1
    /\ Len(tasks) = 2

\* C4: the reasoning collaborator is invoked exactly once in a check run whose
\* sustained check returned true, never in a run whose check returned false or
\* was not reached, and never in snooze mode.
C4_LlmGatedBySustained ==
    \A p \in Procs :
        /\ llm_calls[p] = (IF sustained[p] = Some(TRUE) /\ pc[p] # "llm" THEN 1 ELSE 0)
        /\ args[p].mode = "snooze" => llm_calls[p] = 0

\* C4 witness: a check run has ended whose sustained check returned false.
C4_Witness ==
    /\ CheckRunEnded(1)
    /\ sustained[1] = Some(FALSE)
    /\ llm_calls[1] = 0
    /\ listing[1] # NULL

\* Whether the text holds the letter y in either case: "Y", "y", or U+1E99,
\* which is y with a ring above and has no upper-case form of its own.
HasLetterY(text) == \E i \in 1..Len(text) : text[i] \in { 89, 121, 7833 }

\* The step of process 1 takes the affirmed branch: it executes the INSERT of
\* create_task, or dies of it.
TakesAffirmedBranch == pc'[1] = "commit_task" \/ error'[1] = "StorageError"

\* C5: the reasoning text is taken as affirmed exactly when it contains "Y"
\* (or "YES") compared case-insensitively, and as declined otherwise:
\* "No, conditions are fine." is declined, "Yes, test it" is affirmed.
C5_AffirmedIffContainsY ==
    [][ pc[1] = "decide" =>
           /\ affirmed'[1] = Some(HasLetterY(reasoning[1][1]))
           /\ TakesAffirmedBranch <=> HasLetterY(reasoning[1][1])
           /\ reasoning[1][1] = NoText => ~TakesAffirmedBranch
           /\ reasoning[1][1] = YesText => TakesAffirmedBranch ]_vars

\* C5 witness: the answer "yeS" has been taken as affirmed.
C5_Witness ==
    /\ pc[1] = "send_reminder"
    /\ reasoning[1] = Some(<< 121, 101, 83 >>)
    /\ Len(tasks) = 1

\* Process p is a snooze process that has ended and has called snooze_task,
\* and neither mlflow, the database nor the standard output failed it.
SnoozeTaskCalled(p) ==
    /\ args[p].mode = "snooze"
    /\ pc[p] \in {"done", "failed"}
    /\ TruthyInt(args[p].task_id)
    /\ TruthyStr(args[p].duration)
    /\ error[p] \notin { "ExternalCallError", "StorageError" }

\* The rows of a table with the given id.
RowsWithId(rows, id) == { i \in 1..Len(rows) : rows[i].id = id }

\* C6: snooze_task called with a task id that does not exist fails with
\* NotFoundError and leaves the task store unchanged.
C6_SnoozeMissingTaskFails ==
    SnoozeTaskCalled(1) /\ RowsWithId(tasks_at_start[1], args[1].task_id[1]) = {} =>
        error[1] = "NotFoundError" /\ tasks = tasks_at_start[1]

\* The durations for which C7 claims the default: a suffix other than 'd' or
\* 'h', or no digit at all before the 'd' or 'h'.
ClaimedToDefault(d) ==
    \/ ~(EndsWith(d, 100) \/ EndsWith(d, 104))
    \/ \A i \in 1..(Len(d) - 1) : ~IsDigit(d[i])

\* C7: for every duration string that is not an integer magnitude followed by
\* 'd' or 'h', snooze_task does not fail and sets snooze-until to now + 1 day.
C7_MalformedDurationDefaults ==
    SnoozeTaskCalled(1) /\ ClaimedToDefault(args[1].duration[1]) =>
        /\ error[1] = ""
        /\ \A i \in RowsWithId(tasks, args[1].task_id[1]) :
              /\ tasks[i].status = "snoozed"
              /\ tasks[i].snooze_until = AdaptDatetime(Normalized(1, now + tz))

\* Whether s is a decimal numeral: one of the digits "0" to "9" or more, and
\* nothing else.
IsNumeral(s) == s # <<>> /\ \A i \in 1..Len(s) : s[i] \in 48..57

\* The number a decimal numeral stands for.
RECURSIVE NumeralValue(_)
NumeralValue(s) ==
    IF s = <<>> THEN 0 ELSE 10 * NumeralValue(DropLast(s)) + (s[Len(s)] - 48)

\* C8: after snooze_task(id, spec) on an existing task, whatever its prior
\* status and snooze-until, the task is snoozed with snooze-until = now + N days
\* for spec "Nd" and now + N hours for spec "Nh" (N a decimal numeral), now
\* being the clock reading of this call; a re-snooze overwrites the earlier
\* deadline.
C8_SnoozeSetsDeadline ==
    SnoozeTaskCalled(1) =>
        LET spec == args[1].duration[1]
            N == DropLast(spec)
            unit == spec[Len(spec)]
        IN  IsNumeral(N) /\ unit \in { 100, 104 } =>
                \A i \in RowsWithId(tasks_at_start[1], args[1].task_id[1]) :
                    /\ pc[1] = "done"
                    /\ tasks[i].status = "snoozed"
                    /\ tasks[i].snooze_until =
                          AdaptDatetime(IF unit = 100
                                        THEN Normalized(NumeralValue(N), now + tz)
                                        ELSE LocalNowPlus(NumeralValue(N) * Hour))

\* C9: in every reachable state every task has snooze-until set if and only if
\* its status is "snoozed".
C9_SnoozeUntilIffSnoozed ==
    \A i \in 1..Len(tasks) : (tasks[i].snooze_until # NULL) <=> (tasks[i].status = "snoozed")

\* C9 witness: a snoozed task and a pending task side by side.
C9_Witness ==
    \E i, j \in 1..Len(tasks) :
        /\ tasks[i].status = "snoozed" /\ tasks[i].snooze_until # NULL
        /\ tasks[j].status = "pending" /\ tasks[j].snooze_until = NULL

\* C10: once a task is created its description and created-at never change,
\* and no task is ever deleted.
C10_TaskFieldsFrozen ==
    [][ /\ Len(tasks') >= Len(tasks)
        /\ \A i \in 1..Len(tasks) :
              /\ tasks'[i].id = tasks[i].id
              /\ tasks'[i].description = tasks[i].description
              /\ tasks'[i].created_at = tasks[i].created_at ]_vars

\* C10 witness: a task that has been snoozed, with a task created after it.
C10_Witness ==
    /\ Len(tasks) = 2
    /\ tasks[1].status = "snoozed"
    /\ tasks[1].description = Description(YesText)
    /\ NoneRunning

\* The statuses of the state machine of a task.
Statuses == { "pending", "snoozed" }

\* Whether the deadline of a snoozed row has passed on the clock of the process.
Expired(row) ==
    row.snooze_until # NULL /\ Later(LocalNowPlus(0), DatetimeOf(row.snooze_until))

\* The step is the commit of the UPDATE of a snooze process.
SnoozeStep ==
    \E p \in Procs : args[p].mode = "snooze" /\ pc[p] = "commit_snooze" /\ StepOf(p)

\* C11: every task is created pending; the only changes of a task are made by
\* a snooze process and lead to snoozed (pending -> snoozed, snoozed ->
\* snoozed); the status is always pending or snoozed; a snoozed task never
\* returns to pending, whether or not its snooze-until has passed.
C11_StatusStateMachine ==
    /\ [](\A i \in 1..Len(tasks) : tasks[i].status \in Statuses)
    /\ [][ /\ Len(tasks') >= Len(tasks)
           /\ \A i \in (Len(tasks) + 1)..Len(tasks') : tasks'[i].status = "pending"
           /\ \A i \in 1..Len(tasks) :
                 /\ tasks[i].status = "snoozed" => tasks'[i].status = "snoozed"
                 /\ tasks'[i] # tasks[i] =>
                       SnoozeStep /\ tasks'[i].status = "snoozed" ]_vars

\* C11 witness: a check process has run to its end and reported, at a time
\* when the deadline of a snoozed task had passed; the task is still snoozed.
C11_Witness ==
    /\ args[1].mode = "check"
    /\ pc[1] = "done"
    /\ \E i \in 1..Len(tasks) :
          /\ tasks[i].status = "snoozed"
          /\ Expired(tasks[i])
          /\ \E j \in 1..Len(listing[1][1]) : listing[1][1][j][1] = tasks[i].id

\* C12: the observation log is append-only.  A check process adds one row, at
\* the commit of get_weather and nowhere else, with an id above every earlier
\* id; a get_weather that returns has added its row; a process passes
\* get_weather once; a snooze process adds none; no step changes or removes a
\* row.
C12_ObservationLogAppendOnly ==
    /\ [](\A i, j \in 1..Len(weather_logs) :
             i < j => weather_logs[i].id < weather_logs[j].id)
    /\ [][ /\ Len(weather_logs') \in { Len(weather_logs), Len(weather_logs) + 1 }
           /\ \A i \in 1..Len(weather_logs) : weather_logs'[i] = weather_logs[i]
           /\ Len(weather_logs') = Len(weather_logs) + 1 =>
                 \E p \in Procs :
                    /\ args[p].mode = "check"
                    /\ pc[p] = "commit_weather" /\ pc'[p] # "commit_weather"
                    /\ weather_logs'[Len(weather_logs')] = pending[p][1].row
           /\ \A p \in Procs :
                 /\ pc[p] = "commit_weather" /\ pc'[p] = "check_sustained" =>
                       Len(weather_logs') = Len(weather_logs) + 1
                 /\ pc'[p] = "check_sustained" => pc[p] \in { "commit_weather", "check_sustained" }
                 /\ pc'[p] = "commit_weather" => pc[p] \in { "get_weather", "commit_weather" }
                 /\ pc'[p] = "get_weather" => pc[p] \in { "idle", "get_weather" }
                 /\ StepOf(p) /\ args'[p].mode = "snooze" =>
                       weather_logs' = weather_logs ]_vars

\* C12 witness: two check processes that run at one time have each recorded a
\* reading, after the reading of an earlier process.
C12_Witness ==
    /\ \A p \in Procs : args[p].mode = "check" /\ temp[p] # NULL /\ pc[p] = "check_sustained"
    /\ Len(weather_logs) = 3
    /\ weather_logs[2].id = 2
    /\ weather_logs[3].id = 3

\* Process 1 is a check process that has reported.
Reported == args[1].mode = "check" /\ pc[1] = "done" /\ listing[1] # NULL

\* The lines of the report of process 1.
Lines == listing[1][1]

\* The rows of tasks that the report lists (rows are in the order of creation).
ListedRows == { i \in 1..Len(tasks) : \E a \in 1..Len(Lines) : Lines[a][1] = tasks[i].id }

\* The position in tasks of the a-th line of the report.
RowOfLine(a) == CHOOSE i \in 1..Len(tasks) : tasks[i].id = Lines[a][1]

\* C13: the report of a check run holds at most 5 tasks, only tasks that are
\* pending or snoozed (each with its own status and description), the more
\* recently created task before the less recently created one, and it omits
\* an open task only when 5 open tasks were created after it.
C13_ReportMostRecentFirst ==
    Reported =>
        /\ Len(Lines) <= 5
        /\ \A a \in 1..Len(Lines) :
              \E i \in 1..Len(tasks) :
                 /\ tasks[i].id = Lines[a][1]
                 /\ tasks[i].status \in Statuses
                 /\ Lines[a] = << tasks[i].id, tasks[i].status, tasks[i].description >>
        /\ \A a, b \in 1..Len(Lines) : a < b => RowOfLine(a) > RowOfLine(b)
        /\ \A i \in 1..Len(tasks) :
              tasks[i].status \in Statuses /\ i \notin ListedRows =>
                 Cardinality({ j \in (i + 1)..Len(tasks) : tasks[j].status \in Statuses }) >= 5

\* Process p is a check process that died before its sustained check
\* returned: at its start, in get_weather or in check_sustained_warmth.
FailedBeforeDecision(p) ==
    args[p].mode = "check" /\ pc[p] = "failed" /\ sustained[p] = NULL

\* Whether the sequence a is the beginning of the sequence b.
IsPrefix(a, b) == Len(a) <= Len(b) /\ \A i \in 1..Len(a) : b[i] = a[i]

\* C14: a check process whose weather fetch or sustained evaluation fails ends
\* as a failed process that has not consulted the model, created no task and
\* sent no reminder; the failing step and the end of the process leave every
\* stored row as it was (the step may have added this run's observation), and
\* the process does nothing after the failure but end.
C14_FailureAbortsRun ==
    /\ [](\A p \in Procs :
             FailedBeforeDecision(p) =>
                /\ llm_calls[p] = 0
                /\ reasoning[p] = NULL
                /\ task_id[p] = NULL
                /\ created[p] = <<>>
                /\ reminders[p] = <<>>
                /\ listing[p] = NULL)
    /\ [][ \A p \in Procs :
              /\ pc[p] \in { "get_weather", "commit_weather", "check_sustained", "count_since" }
                 /\ pc'[p] = "failed" =>
                    /\ tasks' = tasks
                    /\ IsPrefix(weather_logs, weather_logs')
                    /\ Len(weather_logs') <= Len(weather_logs) + 1
              /\ pc[p] = "failed" /\ StepOf(p) =>
                    /\ pc'[p] = "idle"
                    /\ tasks' = tasks
                    /\ weather_logs' = weather_logs
                    /\ sqlite_sequence' = sqlite_sequence ]_vars

\* C14 witness: the second check process died in get_weather after its reading
\* was committed (the print raised, and temp of app.py:136 is unbound); the
\* reading, the reading of the first process and the task of the first
\* process are in the store.
C14_Witness ==
    /\ FailedBeforeDecision(1)
    /\ temp[1] = NULL
    /\ error[1] = "ExternalCallError"
    /\ Len(weather_logs) = 2
    /\ Len(tasks) = 1
    /\ tasks = tasks_at_start[1]

\* The DURATION_CHECKS most recently recorded readings (rows are in the order
\* of recording); fewer when the log is shorter.
LastReadings ==
    { i \in 1..Len(weather_logs) : i > Len(weather_logs) - DURATION_CHECKS }

\* C15: check_sustained_warmth returns true exactly when the N = DURATION_CHECKS
\* most recently recorded readings exist and all have temp above
\* TEMP_THRESHOLD, whatever the spacing of the runs that recorded them.
C15_LastNReadingsAllWarm ==
    JustEvaluated =>
        (sustained[1][1] <=>
            /\ Len(weather_logs) >= DURATION_CHECKS
            /\ \A i \in LastReadings :
                  weather_logs[i].temp # NULL /\ weather_logs[i].temp[1] > TEMP_THRESHOLD)

\* C16 as claimed: a check run that took its answer as affirmed has, at its
\* end, emitted exactly one reminder.
C16_ReminderExactlyOnce ==
    \A p \in Procs :
        CheckRunEnded(p) /\ TakenAsAffirmed(p) => Len(reminders[p]) = 1

\* Process p has printed no line of metrics named tasks_created.
NoTaskMetric(p) == \A i \in 1..Len(metrics[p]) : metrics[p][i][1] # "tasks_created"

\* C16: a process emits at most one reminder, and none unless it is a check
\* run that took its answer as affirmed.  A reminder is emitted only when
\* this process has created a task, which is then committed to the store, and
\* it names the id and the description (embedding this run's reasoning) of
\* that task, never a task of another run.  An affirmed check run that is past
\* send_reminder, whether it then ends or dies, has created its task and
\* emitted exactly one reminder; one that has emitted none is on its way to
\* the reminder, or died before the line was out: in create_task, of its
\* INSERT or commit with no task created or of its print with the task
\* committed, or in send_reminder with the task committed.
C16_ReminderForCreatedTask ==
    \A p \in Procs :
        /\ Len(reminders[p]) <= 1
        /\ created[p] = <<>> => reminders[p] = <<>>
        /\ ~TakenAsAffirmed(p) => reminders[p] = <<>> /\ created[p] = <<>>
        /\ reminders[p] # <<>> =>
              /\ args[p].mode = "check"
              /\ created[p] = << reminders[p][1][1] >>
              /\ task_id[p] = Some(reminders[p][1][1])
              /\ \E i \in 1..Len(tasks) :
                    << tasks[i].id, tasks[i].description >> = reminders[p][1]
              /\ reminders[p][1][1] \notin IdsOf(tasks_at_start[p])
              /\ \A q \in Procs \ {p} : reminders[p][1][1] \notin IdsOf(tasks_at_start[q])
                                         => reminders[p][1][1] \notin { created[q][i] : i \in 1..Len(created[q]) }
              /\ reminders[p][1][2] = Description(reasoning[p][1])
        /\ TakenAsAffirmed(p) =>
              /\ pc[p] \in { "commit_task", "send_reminder", "report", "done", "failed" }
              /\ pc[p] \in { "report", "done" } =>
                    Len(reminders[p]) = 1 /\ Len(created[p]) = 1
              /\ pc[p] \in { "commit_task", "send_reminder" } => reminders[p] = <<>>
              /\ pc[p] = "failed" /\ reminders[p] = <<>> =>
                    /\ NoTaskMetric(p)
                    /\ \/ DiedInCreateTask(p) /\ created[p] = <<>>
                       \/ /\ error[p] = "ExternalCallError"
                          /\ task_id[p] = NULL
                          /\ Len(created[p]) = 1
                       \/ /\ error[p] \in { "StorageError", "ExternalCallError" }
                          /\ task_id[p] = Some(created[p][1])
                          /\ Len(created[p]) = 1

\* C16 witness: two affirmed check processes that run at one time have each
\* emitted the reminder for the task it created, the first process for the
\* later task; the task of an earlier process is in the store.
C16_Witness ==
    /\ \A p \in Procs : args[p].mode = "check" /\ Len(reminders[p]) = 1
    /\ reminders[1][1][1] = 3
    /\ reminders[2][1][1] = 2
    /\ Len(tasks) = 3

\* Process p is a sustained check run about to take its reasoning as affirmed.
AffirmedDecision(p) ==
    /\ args[p].mode = "check"
    /\ pc[p] = "decide"
    /\ sustained[p] = Some(TRUE)
    /\ IsAffirmed(reasoning[p][1])

\* The step adds one task, pending and without deadline, under a new id.
AddsOneTask ==
    /\ Len(tasks') = Len(tasks) + 1
    /\ tasks'[Len(tasks')].status = "pending"
    /\ tasks'[Len(tasks')].snooze_until = NULL
    /\ tasks'[Len(tasks')].id \notin IdsOf(tasks)

\* The step is the commit of create_task by process p.
CommitsTask(p) == pc[p] = "commit_task" /\ StepOf(p)

\* The step is one in which the INSERT of create_task or its commit fails.
CreateTaskFails(p) == pc'[p] = "failed" /\ error'[p] = "StorageError"

\* The INSERTs of create_task that wait for their commit.
PendingTasks ==
    { p \in Procs : /\ pending[p] # NULL
                    /\ pending[p][1].op = "INSERT"
                    /\ pending[p][1].table = "tasks" }

\* C17 as claimed: every affirmed decision of a sustained check run, whatever
\* tasks are open already, executes the INSERT of create_task, whose commit
\* adds exactly one task, and no other step adds or removes one; when no
\* process is running, the number of tasks is the number of check runs that
\* were sustained and affirmed and ran to their end.
C17_OneTaskPerCompletedRun ==
    /\ [](NoneRunning => Len(tasks) = tally.completed)
    /\ [][ /\ \A p \in Procs : AffirmedDecision(p) /\ StepOf(p) => pc'[p] = "commit_task"
           /\ IF \E p \in Procs : CommitsTask(p)
              THEN AddsOneTask
              ELSE Len(tasks') = Len(tasks) ]_vars

\* C17: the affirmed decision of a sustained check run, whatever tasks are
\* open already, executes the INSERT of create_task or dies of its failure;
\* the commit of the INSERT adds exactly one task, pending and without
\* deadline, or fails and adds none; only a sustained and affirmed run reaches
\* the commit, and no other step adds or removes a task.  The number of tasks
\* is the number of sustained and affirmed check runs so far, less those
\* whose INSERT or commit failed and those whose row waits for its commit; it
\* is never below the number of such runs that ran to their end, and above it
\* when a run died after its task was committed.
C17_OneTaskPerCommittedRun ==
    /\ [](/\ Len(tasks) + Cardinality(PendingTasks) + tally.create_failed = tally.affirmed
          /\ tally.completed <= Len(tasks)
          /\ \A p \in Procs : pc[p] = "commit_task" => SustainedAndAffirmed(p))
    /\ [][ /\ \A p \in Procs :
                 AffirmedDecision(p) /\ StepOf(p) =>
                    pc'[p] = "commit_task" \/ CreateTaskFails(p)
           /\ IF \E p \in Procs : CommitsTask(p) /\ ~CreateTaskFails(p)
              THEN AddsOneTask
              ELSE Len(tasks') = Len(tasks) ]_vars

\* C17 witness: a check run has created task 2 while task 1 was snoozed with a
\* deadline that has not passed.
C17_Witness ==
    /\ args[1].mode = "check"
    /\ Len(tasks_at_start[1]) = 1
    /\ tasks_at_start[1][1].status = "snoozed"
    /\ Len(tasks) = 2
    /\ tasks[1].status = "snoozed"
    /\ ~Expired(tasks[1])
    /\ tasks[2].status = "pending"
    /\ created[1] = << 2 >>
    /\ tally.affirmed = 2

\* C18: a step of a snooze process changes nothing but the status and the
\* snooze-until of the task that --task_id names: every other task, the number
\* of tasks and the whole observation log stay as they were; a step of a check
\* process leaves the status and the snooze-until of every existing task as
\* they were.
C18_FrameOfTheModes ==
    [][ \A p \in Procs :
           /\ StepOf(p) /\ args'[p].mode = "snooze" =>
                 /\ weather_logs' = weather_logs
                 /\ sqlite_sequence' = sqlite_sequence
                 /\ Len(tasks') = Len(tasks)
                 /\ \A i \in 1..Len(tasks) :
                       /\ tasks'[i].id = tasks[i].id
                       /\ tasks'[i].description = tasks[i].description
                       /\ tasks'[i].created_at = tasks[i].created_at
                       /\ args'[p].task_id # Some(tasks[i].id) => tasks'[i] = tasks[i]
           /\ StepOf(p) /\ args'[p].mode = "check" =>
                 /\ Len(tasks') >= Len(tasks)
                 /\ \A i \in 1..Len(tasks) :
                       /\ tasks'[i].status = tasks[i].status
                       /\ tasks'[i].snooze_until = tasks[i].snooze_until ]_vars

\* C18 witness: of two tasks, a snooze process has snoozed task 1; task 2,
\* snoozed earlier, is as it was.
C18_Witness ==
    /\ SnoozeTaskCalled(1)
    /\ args[1].task_id = Some(1)
    /\ Len(tasks) = 2
    /\ tasks[1] # tasks_at_start[1][1]
    /\ tasks[1].status = "snoozed"
    /\ tasks[2].status = "snoozed"
    /\ tasks[2] = tasks_at_start[1][2]

====
